---- MODULE Spec2Model ----
(***************************************************************************)
(* Model of the product cache (pkg/redis: CacheSingleProduct,              *)
(* RemoveProductFromCache, GetProductBySKUFromCache, AddProductsToCache),  *)
(* the Redis cart store (GetCart, AddToCart, UpdateCartItem,               *)
(* RemoveFromCart, ClearCart, saveCartToRedis), the mongo product helpers  *)
(* and the gin handlers that call them.                                    *)
(*                                                                         *)
(* Money.  Go keeps prices and totals as float64 and writes them to Redis  *)
(* with "%.2f".  Here an in-memory amount is an integer number of Units    *)
(* (1 Unit = 0.0001 currency), a "%.2f" string is the integer number of    *)
(* cents it prints, Fmt2 is the rounding that the formatting performs and  *)
(* ParseFloat turns the printed cents back into Units.  Arithmetic on      *)
(* amounts is exact decimal arithmetic: the binary representation error of *)
(* float64 is not modelled.                                                *)
(*                                                                         *)
(* Redis.  rdb maps every live key to [type, val, ttl].  A key is a tuple  *)
(* of tokens ("cart:" \o sessionID \o ":item:" \o sku), a session ID is a  *)
(* tuple of tokens, and a glob pattern "prefix*" matches the keys that     *)
(* start with the prefix.  ttl is the number of clock ticks the key still  *)
(* lives (NoTTL: no expiry set); Tick is the passing of time.              *)
(*                                                                         *)
(* Two specifications share the state: Spec runs the product handlers,     *)
(* SpecCart runs the cart handlers against a store whose products change.  *)
(***************************************************************************)
EXTENDS Integers, Sequences, FiniteSets, TLC

VARIABLES store, rdb

vars == <<store, rdb>>

----------------------------------------------------------------------------
(* Bounds of the model *)

MaxList == 2
MaxBatch == 2
ProductTTL == 1
CartTTL == 2
MaxQty == 5

(* Program constants *)

RecentCap == 100
NoTTL == 0 - 1

SKUs == {"SKU-A", "SKU-B"}
Categories == {"cat1", "cat2"}

(* 1 cent = 100 Units *)
Cent == 100
PriceSet == {1000 * Cent, 999 * Cent}

----------------------------------------------------------------------------
(* Generic helpers *)

IsPrefix(p, s) == Len(p) <= Len(s) /\ SubSeq(s, 1, Len(p)) = p

RECURSIVE SumOver(_, _)
SumOver(f, S) ==
    IF S = {} THEN 0
    ELSE LET x == CHOOSE y \in S : TRUE
         IN  f[x] + SumOver(f, S \ {x})

RECURSIVE RemoveAll(_, _)
RemoveAll(s, v) ==
    IF s = <<>> THEN <<>>
    ELSE IF Head(s) = v THEN RemoveAll(Tail(s), v)
         ELSE <<Head(s)>> \o RemoveAll(Tail(s), v)

Has(db, k) == k \in DOMAIN db

DelKeys(db, K) == [k \in (DOMAIN db) \ K |-> db[k]]

Put(db, k, e) == [x \in (DOMAIN db) \cup {k} |-> IF x = k THEN e ELSE db[x]]

----------------------------------------------------------------------------
(* Redis commands *)

(* SET key value EX ttl *)
Set(db, k, v, ttl) == Put(db, k, [type |-> "string", val |-> v, ttl |-> ttl])

Del(db, K) == DelKeys(db, K)

(* EXPIRE key ttl: no effect on a missing key *)
Expire(db, k, ttl) ==
    IF Has(db, k) THEN Put(db, k, [db[k] EXCEPT !.ttl = ttl]) ELSE db

(* LPUSH key v: creates the list without expiry, keeps the expiry of an
   existing list *)
LPush(db, k, v) ==
    IF Has(db, k)
    THEN Put(db, k, [db[k] EXCEPT !.val = <<v>> \o @])
    ELSE Put(db, k, [type |-> "list", val |-> <<v>>, ttl |-> NoTTL])

(* LTRIM key 0 stop *)
LTrim(db, k, stop) ==
    IF Has(db, k)
    THEN Put(db, k, [db[k] EXCEPT !.val =
                        IF Len(@) > stop + 1 THEN SubSeq(@, 1, stop + 1) ELSE @])
    ELSE db

(* LREM key 0 v: removes every occurrence; an emptied list is deleted *)
LRem(db, k, v) ==
    IF Has(db, k)
    THEN LET rest == RemoveAll(db[k].val, v)
         IN  IF rest = <<>> THEN DelKeys(db, {k})
             ELSE Put(db, k, [db[k] EXCEPT !.val = rest])
    ELSE db

(* HSET key field value ...: merges into an existing hash and keeps its
   expiry, creates a missing hash without expiry *)
HSet(db, k, h) ==
    IF Has(db, k)
    THEN Put(db, k, [db[k] EXCEPT !.val =
                        [f \in (DOMAIN @) \cup (DOMAIN h) |->
                            IF f \in DOMAIN h THEN h[f] ELSE @[f]]])
    ELSE Put(db, k, [type |-> "hash", val |-> h, ttl |-> NoTTL])

(* KEYS prefix* *)
Keys(db, prefix) == {k \in DOMAIN db : IsPrefix(prefix, k)}

(* One clock tick: every expiry comes one tick closer, a key whose time is
   up is evicted *)
TickDB(db) ==
    LET live == {k \in DOMAIN db : db[k].ttl # 1}
    IN  [k \in live |->
            IF db[k].ttl = NoTTL THEN db[k]
            ELSE [db[k] EXCEPT !.ttl = @ - 1]]

----------------------------------------------------------------------------
(* models.Product and its JSON form *)

NoProduct ==
    [ID |-> <<>>, SKU |-> "", Category |-> "", Price |-> 0, Stock |-> 0,
     CreatedAt |-> ""]

(* time.Now() when the products of the model were created *)
CreationTime == "t0"

(* bson.NewObjectID(), one per SKU in the model *)
NewObjectID(sku) == <<"oid", sku>>

(* bson.ObjectID <-> its hex string in JSON *)
Hex(oid) == <<"hex">> \o Tail(oid)
ObjectIDFromHex(h) == <<"oid">> \o Tail(h)

(* json.Marshal(product): the document keyed by the json tags *)
Marshal(p) ==
    [id |-> Hex(p.ID), sku |-> p.SKU, category |-> p.Category,
     price |-> p.Price, stock |-> [total |-> p.Stock],
     created_at |-> p.CreatedAt]

(* json.Unmarshal into models.Product *)
Unmarshal(j) ==
    [ID |-> ObjectIDFromHex(j.id), SKU |-> j.sku, Category |-> j.category,
     Price |-> j.price, Stock |-> j.stock.total, CreatedAt |-> j.created_at]

(* CreateProductRequest.ToProduct: a new product has no stock *)
ToProduct(sku, category, price) ==
    [ID |-> NewObjectID(sku), SKU |-> sku, Category |-> category,
     Price |-> price, Stock |-> 0, CreatedAt |-> CreationTime]

----------------------------------------------------------------------------
(* Product cache (pkg/redis).  ok is whether Redis answers the call. *)

ProductKey(sku) == <<"product:", sku>>
SkuKey(sku) == <<"sku:", sku>>
CategoryKey(category) == <<"category:", category>>
RecentKey == <<"products:recent">>

(* CacheSingleProduct that writes no sku:{sku} entry *)
CacheSingleProductNoIndex(db, product, ok) ==
    IF ~ok THEN [db |-> db, err |-> TRUE]
    ELSE LET d1 == Set(db, ProductKey(product.SKU), Marshal(product), ProductTTL)
             d3 == LPush(d1, CategoryKey(product.Category), product.SKU)
             d4 == Expire(d3, CategoryKey(product.Category), ProductTTL)
             d5 == LPush(d4, RecentKey, product.SKU)
             d6 == LTrim(d5, RecentKey, RecentCap - 1)
             d7 == Expire(d6, RecentKey, ProductTTL)
         IN  [db |-> d7, err |-> FALSE]

(* CacheSingleProduct that keeps an entry the cache already holds (SETNX) *)
CacheSingleProductKeepOld(db, product, ok) ==
    IF ~ok THEN [db |-> db, err |-> TRUE]
    ELSE LET d1 == IF Has(db, ProductKey(product.SKU)) THEN db
                   ELSE Set(db, ProductKey(product.SKU), Marshal(product), ProductTTL)
             d2 == Set(d1, SkuKey(product.SKU), product.SKU, ProductTTL)
             d3 == LPush(d2, CategoryKey(product.Category), product.SKU)
             d4 == Expire(d3, CategoryKey(product.Category), ProductTTL)
             d5 == LPush(d4, RecentKey, product.SKU)
             d6 == LTrim(d5, RecentKey, RecentCap - 1)
             d7 == Expire(d6, RecentKey, ProductTTL)
         IN  [db |-> d7, err |-> FALSE]

(* CacheSingleProduct that trims the recent list one entry too late *)
CacheSingleProductTrimLate(db, product, ok) ==
    IF ~ok THEN [db |-> db, err |-> TRUE]
    ELSE LET d1 == Set(db, ProductKey(product.SKU), Marshal(product), ProductTTL)
             d2 == Set(d1, SkuKey(product.SKU), product.SKU, ProductTTL)
             d3 == LPush(d2, CategoryKey(product.Category), product.SKU)
             d4 == Expire(d3, CategoryKey(product.Category), ProductTTL)
             d5 == LPush(d4, RecentKey, product.SKU)
             d6 == LTrim(d5, RecentKey, RecentCap)
             d7 == Expire(d6, RecentKey, ProductTTL)
         IN  [db |-> d7, err |-> FALSE]

CacheSingleProduct(db, product, ok) ==
    IF ~ok THEN [db |-> db, err |-> TRUE]
    ELSE LET d1 == Set(db, ProductKey(product.SKU), Marshal(product), ProductTTL)
             d2 == Set(d1, SkuKey(product.SKU), product.SKU, ProductTTL)
             d3 == LPush(d2, CategoryKey(product.Category), product.SKU)
             d4 == Expire(d3, CategoryKey(product.Category), ProductTTL)
             d5 == LPush(d4, RecentKey, product.SKU)
             d6 == LTrim(d5, RecentKey, RecentCap - 1)
             d7 == Expire(d6, RecentKey, ProductTTL)
         IN  [db |-> d7, err |-> FALSE]

(* RemoveProductFromCache whose pipeline is never executed *)
RemoveProductFromCacheNoExec(db, product, ok) ==
    [db |-> db, err |-> ~ok]

(* RemoveProductFromCache that leaves the sku:{sku} entry in place *)
RemoveProductFromCacheKeepIndex(db, product, ok) ==
    IF ~ok THEN [db |-> db, err |-> TRUE]
    ELSE LET d1 == Del(db, {ProductKey(product.SKU)})
             d3 == LRem(d1, CategoryKey(product.Category), product.SKU)
             d4 == LRem(d3, RecentKey, product.SKU)
         IN  [db |-> d4, err |-> FALSE]

RemoveProductFromCache(db, product, ok) ==
    IF ~ok THEN [db |-> db, err |-> TRUE]
    ELSE LET d1 == Del(db, {ProductKey(product.SKU)})
             d2 == Del(d1, {SkuKey(product.SKU)})
             d3 == LRem(d2, CategoryKey(product.Category), product.SKU)
             d4 == LRem(d3, RecentKey, product.SKU)
         IN  [db |-> d4, err |-> FALSE]

GetProductFromCache(db, productSKU, ok) ==
    IF ~ok \/ ~Has(db, ProductKey(productSKU))
    THEN [err |-> TRUE, product |-> NoProduct]
    ELSE [err |-> FALSE, product |-> Unmarshal(db[ProductKey(productSKU)].val)]

GetProductBySKUFromCache(db, sku, ok) ==
    IF ~ok \/ ~Has(db, SkuKey(sku))
    THEN [err |-> TRUE, product |-> NoProduct]
    ELSE GetProductFromCache(db, db[SkuKey(sku)].val, ok)

(* AddProductsToCache: puts the products in order and returns at the first
   put that fails.  oks[i] is whether Redis answers the put of products[i]. *)
RECURSIVE AddProductsToCache(_, _, _)
AddProductsToCache(db, products, oks) ==
    IF products = <<>> THEN [db |-> db, err |-> FALSE]
    ELSE LET r == CacheSingleProduct(db, Head(products), Head(oks))
         IN  IF r.err THEN [db |-> r.db, err |-> TRUE]
             ELSE AddProductsToCache(r.db, Tail(products), Tail(oks))

----------------------------------------------------------------------------
(* Product store (pkg/mongo).  store is the products collection, a set of
   documents; ok is whether the database answers the call. *)

ErrNoDocuments == "mongo: no documents in result"
ErrStore == "store error"

Matching(st, sku) == {d \in st : d.SKU = sku}

(* FindOne that reports a missing document as "product not found" *)
MongoGetProductBySKUNotFoundText(st, sku, ok) ==
    IF ~ok THEN [err |-> ErrStore, product |-> NoProduct]
    ELSE IF Matching(st, sku) = {} THEN [err |-> "product not found", product |-> NoProduct]
    ELSE [err |-> "", product |-> CHOOSE d \in Matching(st, sku) : TRUE]

(* collection.FindOne(sku).Decode(&product) *)
MongoGetProductBySKU(st, sku, ok) ==
    IF ~ok THEN [err |-> ErrStore, product |-> NoProduct]
    ELSE IF Matching(st, sku) = {} THEN [err |-> ErrNoDocuments, product |-> NoProduct]
    ELSE [err |-> "", product |-> CHOOSE d \in Matching(st, sku) : TRUE]

(* {"$set": updates} applied to one document *)
ApplySet(d, updates) ==
    [d EXCEPT !.SKU = IF "sku" \in DOMAIN updates THEN updates["sku"] ELSE @,
              !.Category = IF "category" \in DOMAIN updates THEN updates["category"] ELSE @,
              !.Price = IF "price" \in DOMAIN updates THEN updates["price"] ELSE @,
              !.Stock = IF "stock" \in DOMAIN updates THEN updates["stock"] ELSE @,
              !.CreatedAt = IF "created_at" \in DOMAIN updates
                            THEN updates["created_at"] ELSE @]

(* UpdateOne, then mongo.GetProductBySKU: an update that matches nothing changes
   nothing and the read that follows reports ErrNoDocuments *)
MongoUpdateProductBySKU(st, sku, updates, ok) ==
    IF ~ok THEN [store |-> st, err |-> ErrStore, product |-> NoProduct]
    ELSE LET st1 == IF Matching(st, sku) = {} THEN st
                    ELSE LET d == CHOOSE x \in Matching(st, sku) : TRUE
                         IN  (st \ {d}) \cup {ApplySet(d, updates)}
             r == MongoGetProductBySKU(st1, sku, TRUE)
         IN  [store |-> st1, err |-> r.err, product |-> r.product]

(* mongo.GetProductBySKU, then DeleteOne *)
MongoDeleteProductBySKU(st, sku, ok) ==
    LET r == MongoGetProductBySKU(st, sku, ok)
    IN  IF r.err # "" THEN [store |-> st, err |-> r.err, product |-> NoProduct]
        ELSE [store |-> st \ {r.product}, err |-> "", product |-> r.product]

(* InsertMany *)
CreateProducts(st, products, ok) ==
    IF ~ok THEN [store |-> st, err |-> ErrStore, products |-> <<>>]
    ELSE [store |-> st \cup {products[i] : i \in DOMAIN products},
          err |-> "", products |-> products]

----------------------------------------------------------------------------
(* Product handlers (internal/router).  Each handler is an operator from the
   state and the request to the new state and the response; the response
   also records what the handler did to the cache (put, removed, cacheErr)
   and whether it asked the store. *)

ValidSKU(sku) == Len(sku) >= 3 /\ Len(sku) <= 50

ImmutableFields == {"_id", "id", "sku", "created_at"}

(* The update passed on as it came, immutable fields included *)
StripNothing(updates) == updates

StripImmutable(updates) ==
    [f \in (DOMAIN updates) \ ImmutableFields |-> updates[f]]

EmptyMap == [f \in {} |-> 0]

(* No list of the cache is longer than the model's bound *)
Bounded(db) ==
    \A k \in DOMAIN db : db[k].type = "list" => Len(db[k].val) <= MaxList

Response(op, sku, status, xcache, product) ==
    [op |-> op, sku |-> sku, status |-> status, xcache |-> xcache,
     product |-> product, put |-> <<>>, removed |-> <<>>, cacheErr |-> FALSE,
     storeQueried |-> FALSE, products |-> <<>>, oks |-> <<>>,
     errors |-> <<>>, totalRequested |-> 0]

GetProductBySKUResult(st, db, sku, readOK, storeOK, putOK) ==
    LET c == GetProductBySKUFromCache(db, sku, readOK)
        m == MongoGetProductBySKU(st, sku, storeOK)
        w == CacheSingleProduct(db, m.product, putOK)
        R(status, xcache, product) == Response("GetProductBySKU", sku, status, xcache, product)
    IN  IF ~ValidSKU(sku) THEN [store |-> st, db |-> db, resp |-> R(400, "", NoProduct)]
        ELSE IF ~c.err THEN [store |-> st, db |-> db, resp |-> R(200, "HIT", c.product)]
        ELSE IF m.err = ErrNoDocuments
             THEN [store |-> st, db |-> db,
                   resp |-> [R(404, "", NoProduct) EXCEPT !.storeQueried = TRUE]]
        ELSE IF m.err # ""
             THEN [store |-> st, db |-> db,
                   resp |-> [R(500, "", NoProduct) EXCEPT !.storeQueried = TRUE]]
        ELSE [store |-> st, db |-> w.db,
              resp |-> [R(200, "MISS", m.product) EXCEPT
                           !.storeQueried = TRUE,
                           !.cacheErr = w.err,
                           !.put = IF w.err THEN <<>> ELSE <<m.product>>]]

(* EditProductBySKU that refuses a payload naming an immutable field *)
EditProductBySKUResultRefusing(st, db, sku, updates, storeOK, putOK) ==
    LET valid == StripImmutable(updates)
        u == MongoUpdateProductBySKU(st, sku, valid, storeOK)
        w == CacheSingleProduct(db, u.product, putOK)
        R(status, xcache, product) == Response("EditProductBySKU", sku, status, xcache, product)
    IN  IF ~ValidSKU(sku) THEN [store |-> st, db |-> db, resp |-> R(400, "", NoProduct)]
        ELSE IF DOMAIN updates = {} THEN [store |-> st, db |-> db, resp |-> R(400, "", NoProduct)]
        ELSE IF DOMAIN valid # DOMAIN updates
             THEN [store |-> st, db |-> db, resp |-> R(400, "", NoProduct)]
        ELSE IF u.err = ErrNoDocuments
             THEN [store |-> u.store, db |-> db,
                   resp |-> [R(404, "", NoProduct) EXCEPT !.storeQueried = TRUE]]
        ELSE IF u.err # ""
             THEN [store |-> u.store, db |-> db,
                   resp |-> [R(500, "", NoProduct) EXCEPT !.storeQueried = TRUE]]
        ELSE [store |-> u.store, db |-> w.db,
              resp |-> [R(200, "REFRESHED", u.product) EXCEPT
                           !.storeQueried = TRUE,
                           !.cacheErr = w.err,
                           !.put = IF w.err THEN <<>> ELSE <<u.product>>]]

EditProductBySKUResult(st, db, sku, updates, storeOK, putOK) ==
    LET valid == StripImmutable(updates)
        u == MongoUpdateProductBySKU(st, sku, valid, storeOK)
        w == CacheSingleProduct(db, u.product, putOK)
        R(status, xcache, product) == Response("EditProductBySKU", sku, status, xcache, product)
    IN  IF ~ValidSKU(sku) THEN [store |-> st, db |-> db, resp |-> R(400, "", NoProduct)]
        ELSE IF DOMAIN updates = {} THEN [store |-> st, db |-> db, resp |-> R(400, "", NoProduct)]
        ELSE IF DOMAIN valid = {} THEN [store |-> st, db |-> db, resp |-> R(400, "", NoProduct)]
        ELSE IF u.err = ErrNoDocuments
             THEN [store |-> u.store, db |-> db,
                   resp |-> [R(404, "", NoProduct) EXCEPT !.storeQueried = TRUE]]
        ELSE IF u.err # ""
             THEN [store |-> u.store, db |-> db,
                   resp |-> [R(500, "", NoProduct) EXCEPT !.storeQueried = TRUE]]
        ELSE [store |-> u.store, db |-> w.db,
              resp |-> [R(200, "REFRESHED", u.product) EXCEPT
                           !.storeQueried = TRUE,
                           !.cacheErr = w.err,
                           !.put = IF w.err THEN <<>> ELSE <<u.product>>]]

(* DeleteProductBySKU that fails the request when the cache removal fails *)
DeleteProductBySKUResultStrict(st, db, sku, storeOK, cacheOK) ==
    LET d == MongoDeleteProductBySKU(st, sku, storeOK)
        w == RemoveProductFromCache(db, d.product, cacheOK)
        R(status, xcache, product) == Response("DeleteProductBySKU", sku, status, xcache, product)
    IN  IF ~ValidSKU(sku) THEN [store |-> st, db |-> db, resp |-> R(400, "", NoProduct)]
        ELSE IF d.err = ErrNoDocuments
             THEN [store |-> d.store, db |-> db,
                   resp |-> [R(404, "", NoProduct) EXCEPT !.storeQueried = TRUE]]
        ELSE IF d.err # ""
             THEN [store |-> d.store, db |-> db,
                   resp |-> [R(500, "", NoProduct) EXCEPT !.storeQueried = TRUE]]
        ELSE [store |-> d.store, db |-> w.db,
              resp |-> [R(IF w.err THEN 500 ELSE 200, "DELETED", d.product) EXCEPT
                           !.storeQueried = TRUE,
                           !.cacheErr = w.err,
                           !.removed = IF w.err THEN <<>> ELSE <<d.product>>]]

(* DeleteProductBySKU that evicts the cached product first and deletes from
   the store afterwards *)
DeleteProductBySKUResultEvictFirst(st, db, sku, storeOK, cacheOK) ==
    LET c == GetProductBySKUFromCache(db, sku, cacheOK)
        w == IF c.err THEN [db |-> db, err |-> ~cacheOK]
             ELSE RemoveProductFromCache(db, c.product, cacheOK)
        d == MongoDeleteProductBySKU(st, sku, storeOK)
        R(status, xcache, product) == Response("DeleteProductBySKU", sku, status, xcache, product)
    IN  IF ~ValidSKU(sku) THEN [store |-> st, db |-> db, resp |-> R(400, "", NoProduct)]
        ELSE IF d.err = ErrNoDocuments
             THEN [store |-> d.store, db |-> w.db,
                   resp |-> [R(404, "", NoProduct) EXCEPT !.storeQueried = TRUE]]
        ELSE IF d.err # ""
             THEN [store |-> d.store, db |-> w.db,
                   resp |-> [R(500, "", NoProduct) EXCEPT !.storeQueried = TRUE]]
        ELSE [store |-> d.store, db |-> w.db,
              resp |-> [R(200, "DELETED", d.product) EXCEPT
                           !.storeQueried = TRUE,
                           !.cacheErr = w.err,
                           !.removed = IF w.err THEN <<>> ELSE <<d.product>>]]

DeleteProductBySKUResult(st, db, sku, storeOK, cacheOK) ==
    LET d == MongoDeleteProductBySKU(st, sku, storeOK)
        w == RemoveProductFromCache(db, d.product, cacheOK)
        R(status, xcache, product) == Response("DeleteProductBySKU", sku, status, xcache, product)
    IN  IF ~ValidSKU(sku) THEN [store |-> st, db |-> db, resp |-> R(400, "", NoProduct)]
        ELSE IF d.err = ErrNoDocuments
             THEN [store |-> d.store, db |-> db,
                   resp |-> [R(404, "", NoProduct) EXCEPT !.storeQueried = TRUE]]
        ELSE IF d.err # ""
             THEN [store |-> d.store, db |-> db,
                   resp |-> [R(500, "", NoProduct) EXCEPT !.storeQueried = TRUE]]
        ELSE [store |-> d.store, db |-> w.db,
              resp |-> [R(200, "DELETED", d.product) EXCEPT
                           !.storeQueried = TRUE,
                           !.cacheErr = w.err,
                           !.removed = IF w.err THEN <<>> ELSE <<d.product>>]]

(* The products AddProductsToCache has put when it returns *)
RECURSIVE PutPrefix(_, _)
PutPrefix(products, oks) ==
    IF products = <<>> \/ ~Head(oks) THEN <<>>
    ELSE <<Head(products)>> \o PutPrefix(Tail(products), Tail(oks))

(* reqs: the request bodies with the SKU that GenerateSKU gives each *)
CreateNewProductsResult(st, db, reqs, storeOK, putOKs) ==
    LET products == [i \in DOMAIN reqs |->
                        ToProduct(reqs[i].sku, reqs[i].body.category, reqs[i].body.price)]
        c == CreateProducts(st, products, storeOK)
        a == AddProductsToCache(db, c.products, putOKs)
        R(status) == [Response("CreateNewProducts", "", status, "", NoProduct)
                         EXCEPT !.totalRequested = Len(reqs)]
    IN  IF Len(reqs) = 0 THEN [store |-> st, db |-> db, resp |-> R(400)]
        ELSE IF c.err # ""
             THEN [store |-> c.store, db |-> db,
                   resp |-> [R(500) EXCEPT !.storeQueried = TRUE]]
        ELSE [store |-> c.store, db |-> a.db,
              resp |-> [R(201) EXCEPT
                           !.storeQueried = TRUE,
                           !.products = c.products,
                           !.oks = putOKs,
                           !.cacheErr = a.err,
                           !.put = PutPrefix(c.products, putOKs)]]

(* The loop of BulkEditProducts over bulkUpdates[i..]; acc carries the store,
   the cache, updatedProducts, errors and the cache bookkeeping *)
RECURSIVE BulkEditLoop(_, _, _, _, _)
BulkEditLoop(acc, bulkUpdates, storeOKs, putOKs, i) ==
    IF i > Len(bulkUpdates) THEN acc
    ELSE LET updateData == bulkUpdates[i]
             sku == updateData["sku"]
             updates == StripImmutable(updateData)
             u == MongoUpdateProductBySKU(acc.store, sku, updates, storeOKs[i])
             w == CacheSingleProduct(acc.db, u.product, putOKs[i])
             Fail(code) == [acc EXCEPT !.errors = Append(@, code)]
             next ==
                IF "sku" \notin DOMAIN updateData THEN Fail("missing_sku")
                ELSE IF ~ValidSKU(sku) THEN Fail("invalid_sku_format")
                ELSE IF DOMAIN updates = {} THEN Fail("no_valid_updates")
                ELSE IF u.err = ErrNoDocuments THEN Fail("not_found")
                ELSE IF u.err # "" THEN Fail("update_failed")
                ELSE [acc EXCEPT !.store = u.store,
                                 !.db = w.db,
                                 !.updated = Append(@, u.product),
                                 !.cacheErr = @ \/ w.err,
                                 !.put = IF w.err THEN @ ELSE Append(@, u.product)]
         IN  BulkEditLoop(next, bulkUpdates, storeOKs, putOKs, i + 1)

(* 200 when nothing failed, 207 on partial success, 400 when nothing
   succeeded *)
BulkStatus(successCount, errorCount) ==
    IF successCount = 0 THEN 400
    ELSE IF errorCount > 0 THEN 207
    ELSE 200

BulkEditProductsResult(st, db, bulkUpdates, storeOKs, putOKs) ==
    LET acc0 == [store |-> st, db |-> db, updated |-> <<>>, errors |-> <<>>,
                 cacheErr |-> FALSE, put |-> <<>>]
        acc == BulkEditLoop(acc0, bulkUpdates, storeOKs, putOKs, 1)
        R(status) == [Response("BulkEditProducts", "", status, "", NoProduct)
                         EXCEPT !.totalRequested = Len(bulkUpdates)]
    IN  IF Len(bulkUpdates) = 0 THEN [store |-> st, db |-> db, resp |-> R(400)]
        ELSE [store |-> acc.store, db |-> acc.db,
              resp |-> [R(BulkStatus(Len(acc.updated), Len(acc.errors))) EXCEPT
                           !.xcache = "BULK-REFRESHED",
                           !.storeQueried = TRUE,
                           !.products = acc.updated,
                           !.errors = acc.errors,
                           !.cacheErr = acc.cacheErr,
                           !.put = acc.put]]

RECURSIVE BulkDeleteLoop(_, _, _, _, _)
BulkDeleteLoop(acc, deleteRequests, storeOKs, cacheOKs, i) ==
    IF i > Len(deleteRequests) THEN acc
    ELSE LET sku == deleteRequests[i]
             d == MongoDeleteProductBySKU(acc.store, sku, storeOKs[i])
             w == RemoveProductFromCache(acc.db, d.product, cacheOKs[i])
             Fail(code) == [acc EXCEPT !.errors = Append(@, code)]
             next ==
                IF ~ValidSKU(sku) THEN Fail("invalid_format")
                ELSE IF d.err = ErrNoDocuments THEN Fail("not_found")
                ELSE IF d.err # "" THEN Fail("database_error")
                ELSE [acc EXCEPT !.store = d.store,
                                 !.db = w.db,
                                 !.deleted = Append(@, d.product),
                                 !.cacheErr = @ \/ w.err,
                                 !.removed = IF w.err THEN @ ELSE Append(@, d.product)]
         IN  BulkDeleteLoop(next, deleteRequests, storeOKs, cacheOKs, i + 1)

(* A bulk delete element whose sku is absent, or empty *)
MissingSKU == ""

(* ShouldBindJSON on []BulkDeleteRequest: the binding validates every
   element, and binding:"required" fails the whole array on an element
   without a sku *)
BindsDeleteRequests(deleteRequests) ==
    \A i \in DOMAIN deleteRequests : deleteRequests[i] # MissingSKU

BulkDeleteProductsResult(st, db, deleteRequests, storeOKs, cacheOKs) ==
    LET acc0 == [store |-> st, db |-> db, deleted |-> <<>>, errors |-> <<>>,
                 cacheErr |-> FALSE, removed |-> <<>>]
        acc == BulkDeleteLoop(acc0, deleteRequests, storeOKs, cacheOKs, 1)
        R(status) == [Response("BulkDeleteProducts", "", status, "", NoProduct)
                         EXCEPT !.totalRequested = Len(deleteRequests)]
    IN  IF ~BindsDeleteRequests(deleteRequests)
        THEN [store |-> st, db |-> db,
              resp |-> [Response("BulkDeleteProducts", "", 400, "", NoProduct)
                           EXCEPT !.errors = <<"json_parse_error">>]]
        ELSE IF Len(deleteRequests) = 0 THEN [store |-> st, db |-> db, resp |-> R(400)]
        ELSE [store |-> acc.store, db |-> acc.db,
              resp |-> [R(BulkStatus(Len(acc.deleted), Len(acc.errors))) EXCEPT
                           !.xcache = "BULK-DELETED",
                           !.storeQueried = TRUE,
                           !.products = acc.deleted,
                           !.errors = acc.errors,
                           !.cacheErr = acc.cacheErr,
                           !.removed = acc.removed]]

----------------------------------------------------------------------------
(* Overlapping requests of the product handlers.  A handler holds no lock
   between its store call and its cache call, so the calls of two requests
   that are in flight together can interleave. *)

(* Two EditProductBySKU requests on sku in flight together, both accepted:
   the store applies updates1, then updates2; the cache puts land in the
   order of the store calls, or in the opposite order when firstLandsLast *)
OverlappingEdits(st, db, sku, updates1, updates2, firstLandsLast) ==
    LET u1 == MongoUpdateProductBySKU(st, sku, StripImmutable(updates1), TRUE)
        u2 == MongoUpdateProductBySKU(u1.store, sku, StripImmutable(updates2), TRUE)
        a == IF firstLandsLast THEN u2.product ELSE u1.product
        b == IF firstLandsLast THEN u1.product ELSE u2.product
        w1 == CacheSingleProduct(db, a, TRUE)
        w2 == CacheSingleProduct(w1.db, b, TRUE)
    IN  [store |-> u2.store, db |-> w2.db]

(* A GetProductBySKU and a DeleteProductBySKU on sku in flight together: the
   get has missed the cache and read the document from the store; the delete
   removes the document and evicts the cache entry; when fillLandsLast the
   cache put of the get lands after the eviction, otherwise before it *)
GetOverlappingDelete(st, db, sku, fillLandsLast) ==
    LET m == MongoGetProductBySKU(st, sku, TRUE)
        d == MongoDeleteProductBySKU(st, sku, TRUE)
        db1 == IF fillLandsLast
               THEN CacheSingleProduct(
                        RemoveProductFromCache(db, d.product, TRUE).db,
                        m.product, TRUE).db
               ELSE RemoveProductFromCache(
                        CacheSingleProduct(db, m.product, TRUE).db,
                        d.product, TRUE).db
    IN  [store |-> d.store, db |-> db1]

----------------------------------------------------------------------------
(* Requests of the product handlers *)

Map1(k, v) == [f \in {k} |-> v]
Map2(k1, v1, k2, v2) == [f \in {k1, k2} |-> IF f = k1 THEN v1 ELSE v2]
Map3(k1, v1, k2, v2, k3, v3) ==
    [f \in {k1, k2, k3} |-> IF f = k1 THEN v1 ELSE IF f = k2 THEN v2 ELSE v3]

(* A path parameter too short to be a SKU *)
ShortSKU == "X"

SeqsUpTo(S, n) == UNION {[1..k -> S] : k \in 1..n}

(* The ways a request that makes n store calls and n cache calls can meet an
   outage: nothing fails, or the store or the cache fails to answer the
   call made for one element *)
Faults(n) ==
    {[storeOKs |-> [i \in 1..n |-> TRUE], cacheOKs |-> [i \in 1..n |-> TRUE]]}
    \cup {[storeOKs |-> [i \in 1..n |-> i # k], cacheOKs |-> [i \in 1..n |-> TRUE]] : k \in 1..n}
    \cup {[storeOKs |-> [i \in 1..n |-> TRUE], cacheOKs |-> [i \in 1..n |-> i # k]] : k \in 1..n}

(* GET /products/:sku; the cache is called twice, to read and to put *)
GetRequests ==
    {[sku |-> s, readOK |-> f[1], storeOK |-> f[2], putOK |-> f[3]] :
        s \in SKUs \cup {ShortSKU},
        f \in {<<TRUE, TRUE, TRUE>>, <<FALSE, TRUE, TRUE>>,
               <<FALSE, FALSE, TRUE>>, <<TRUE, TRUE, FALSE>>}}

UpdatePayloads ==
    {EmptyMap, Map1("sku", "SKU-B"), Map2("sku", "SKU-B", "category", "cat2"),
     Map2("created_at", "t1", "category", "cat1")}
    \cup {Map1("category", c) : c \in Categories}

(* PUT /products/:sku *)
EditRequests ==
    {[sku |-> s, updates |-> u, storeOK |-> f.storeOKs[1], putOK |-> f.cacheOKs[1]] :
        s \in SKUs, u \in UpdatePayloads, f \in Faults(1)}
    \cup {[sku |-> ShortSKU, updates |-> Map1("category", "cat1"),
           storeOK |-> TRUE, putOK |-> TRUE]}

(* DELETE /products/:sku *)
DeleteRequests ==
    {[sku |-> s, storeOK |-> f.storeOKs[1], cacheOK |-> f.cacheOKs[1]] :
        s \in SKUs \cup {ShortSKU}, f \in Faults(1)}

(* The bodies of create requests: category and price *)
NewProductSpecs == {[category |-> "cat1", price |-> 1000 * Cent]}

(* POST /products: the request bodies with the SKU GenerateSKU gives each *)
CreateRequests ==
    {[reqs |-> r, storeOK |-> f.storeOKs[1], putOKs |-> f.cacheOKs] :
        r \in {x \in SeqsUpTo([sku : SKUs, body : NewProductSpecs], MaxBatch) :
                  \A i, j \in DOMAIN x : i # j => x[i].sku # x[j].sku},
        f \in Faults(MaxBatch)}

BulkUpdateElems ==
    {Map2("sku", "SKU-A", "category", "cat2"),
     Map3("sku", "SKU-B", "category", "cat2", "created_at", "t1"),
     Map1("category", "cat1"), Map1("sku", "SKU-A"),
     Map2("sku", ShortSKU, "category", "cat1")}

(* PUT /products *)
BulkEditRequests ==
    {[bulkUpdates |-> b, storeOKs |-> f.storeOKs, putOKs |-> f.cacheOKs] :
        b \in SeqsUpTo(BulkUpdateElems, MaxBatch), f \in Faults(MaxBatch)}

(* DELETE /products *)
BulkDeleteRequests ==
    {[deleteRequests |-> b, storeOKs |-> f.storeOKs, cacheOKs |-> f.cacheOKs] :
        b \in SeqsUpTo(SKUs \cup {ShortSKU, MissingSKU}, MaxBatch),
        f \in Faults(MaxBatch)}

GetProductBySKUDo(st, db, q) ==
    GetProductBySKUResult(st, db, q.sku, q.readOK, q.storeOK, q.putOK)
EditProductBySKUDo(st, db, q) ==
    EditProductBySKUResult(st, db, q.sku, q.updates, q.storeOK, q.putOK)
DeleteProductBySKUDo(st, db, q) ==
    DeleteProductBySKUResult(st, db, q.sku, q.storeOK, q.cacheOK)
CreateNewProductsDo(st, db, q) ==
    CreateNewProductsResult(st, db, q.reqs, q.storeOK, q.putOKs)
BulkEditProductsDo(st, db, q) ==
    BulkEditProductsResult(st, db, q.bulkUpdates, q.storeOKs, q.putOKs)
BulkDeleteProductsDo(st, db, q) ==
    BulkDeleteProductsResult(st, db, q.deleteRequests, q.storeOKs, q.cacheOKs)

(* GenerateSKU gives every new product a SKU that no stored product has *)
FreshSKUs(st, q) == \A i \in DOMAIN q.reqs : Matching(st, q.reqs[i].sku) = {}

----------------------------------------------------------------------------
(* Actions of the product handlers *)

GetProductBySKU ==
    \E q \in GetRequests :
        LET r == GetProductBySKUDo(store, rdb, q)
        IN  /\ Bounded(r.db)
            /\ store' = r.store
            /\ rdb' = r.db

EditProductBySKU ==
    \E q \in EditRequests :
        LET r == EditProductBySKUDo(store, rdb, q)
        IN  /\ Bounded(r.db)
            /\ store' = r.store
            /\ rdb' = r.db

DeleteProductBySKU ==
    \E q \in DeleteRequests :
        LET r == DeleteProductBySKUDo(store, rdb, q)
        IN  /\ Bounded(r.db)
            /\ store' = r.store
            /\ rdb' = r.db

CreateNewProducts ==
    \E q \in CreateRequests :
        LET r == CreateNewProductsDo(store, rdb, q)
        IN  /\ FreshSKUs(store, q)
            /\ Bounded(r.db)
            /\ store' = r.store
            /\ rdb' = r.db

BulkEditProducts ==
    \E q \in BulkEditRequests :
        LET r == BulkEditProductsDo(store, rdb, q)
        IN  /\ Bounded(r.db)
            /\ store' = r.store
            /\ rdb' = r.db

BulkDeleteProducts ==
    \E q \in BulkDeleteRequests :
        LET r == BulkDeleteProductsDo(store, rdb, q)
        IN  /\ Bounded(r.db)
            /\ store' = r.store
            /\ rdb' = r.db

(* Time passes: expiries come closer, expired keys are evicted *)
Tick ==
    /\ rdb' = TickDB(rdb)
    /\ UNCHANGED store

Init ==
    /\ store = {}
    /\ rdb = <<>>

Next ==
    \/ GetProductBySKU
    \/ EditProductBySKU
    \/ DeleteProductBySKU
    \/ CreateNewProducts
    \/ BulkEditProducts
    \/ BulkDeleteProducts
    \/ Tick

Spec == Init /\ [][Next]_vars

----------------------------------------------------------------------------
(* Cart store (pkg/redis).  The cart and its items are Redis hashes whose
   amounts are "%.2f" strings.  The fields product_id, product_name,
   added_at, last_updated and expires_at are carried along by the code and
   read by nothing; they are left out. *)

(* fmt.Sprintf("%.2f", x): the cents printed, the nearest to x, a tie going
   to the even cent *)
Fmt2(x) ==
    LET q == x \div Cent
        r == x % Cent
    IN  IF 2 * r > Cent \/ (2 * r = Cent /\ q % 2 = 1) THEN q + 1 ELSE q

(* strconv.ParseFloat of a "%.2f" string *)
ParseFloat(c) == c * Cent

ShippingFee == 599 * Cent
FreeShippingFrom == 5000 * Cent

CartKey(sessionID) == <<"cart:">> \o sessionID
ItemPattern(sessionID) == <<"cart:">> \o sessionID \o <<":item:">>
ItemKey(sessionID, sku) == ItemPattern(sessionID) \o <<sku>>

ErrCache == "cache error"
ErrItemNotFound == "item not found in cart"

createEmptyCart(sessionID) ==
    [SessionID |-> sessionID, Items |-> EmptyMap, Subtotal |-> 0, Tax |-> 0,
     Shipping |-> 0, Total |-> 0, ItemCount |-> 0]

NoCart == createEmptyCart(<<>>)

Field(h, f, default) == IF f \in DOMAIN h THEN h[f] ELSE default

(* One item hash read into a models.CartItem; a missing field leaves the
   zero value *)
ParseItem(h) ==
    [SKU |-> Field(h, "sku", ""),
     Price |-> ParseFloat(Field(h, "price", 0)),
     Quantity |-> Field(h, "quantity", 0),
     Subtotal |-> ParseFloat(Field(h, "subtotal", 0))]

RedisGetCart(db, sessionID, ok) ==
    IF ~ok THEN [err |-> ErrCache, cart |-> NoCart]
    ELSE IF ~Has(db, CartKey(sessionID))
         THEN [err |-> "", cart |-> createEmptyCart(sessionID)]
    ELSE LET cartData == db[CartKey(sessionID)].val
             itemKeys == Keys(db, ItemPattern(sessionID))
             parsed == [k \in itemKeys |-> ParseItem(db[k].val)]
             skus == {parsed[k].SKU : k \in itemKeys}
             items == [sku \in skus |->
                          parsed[CHOOSE k \in itemKeys : parsed[k].SKU = sku]]
         IN  [err |-> "",
              cart |-> [SessionID |-> sessionID,
                        Items |-> items,
                        Subtotal |-> ParseFloat(Field(cartData, "subtotal", 0)),
                        Tax |-> ParseFloat(Field(cartData, "tax", 0)),
                        Shipping |-> ParseFloat(Field(cartData, "shipping", 0)),
                        Total |-> ParseFloat(Field(cartData, "total", 0)),
                        ItemCount |-> Field(cartData, "item_count", 0)]]

(* cart.Subtotal * 0.10 *)
TaxOf(subtotal) == subtotal \div 10

calculateCartTotals(cart) ==
    LET subtotal == SumOver([k \in DOMAIN cart.Items |-> cart.Items[k].Subtotal],
                            DOMAIN cart.Items)
        itemCount == SumOver([k \in DOMAIN cart.Items |-> cart.Items[k].Quantity],
                             DOMAIN cart.Items)
        tax == TaxOf(subtotal)
        shipping == IF subtotal > 0 /\ subtotal < FreeShippingFrom
                    THEN ShippingFee ELSE 0
    IN  [cart EXCEPT !.Subtotal = subtotal,
                     !.ItemCount = itemCount,
                     !.Tax = tax,
                     !.Shipping = shipping,
                     !.Total = subtotal + tax + shipping]

RECURSIVE SaveItems(_, _, _, _)
SaveItems(db, sessionID, items, todo) ==
    IF todo = {} THEN db
    ELSE LET sku == CHOOSE x \in todo : TRUE
             item == items[sku]
             itemData == [sku |-> item.SKU,
                          price |-> Fmt2(item.Price),
                          quantity |-> item.Quantity,
                          subtotal |-> Fmt2(item.Subtotal)]
             d1 == HSet(db, ItemKey(sessionID, sku), itemData)
             d2 == Expire(d1, ItemKey(sessionID, sku), CartTTL)
         IN  SaveItems(d2, sessionID, items, todo \ {sku})

(* saveCartToRedis: the metadata hash and its expiry, then every item hash
   and its expiry, each a command of its own.  lag: a clock tick falls
   between the expiry of the metadata and the writes of the items. *)
saveCartToRedis(db, cart, lag) ==
    LET cartKey == CartKey(cart.SessionID)
        cartData == [subtotal |-> Fmt2(cart.Subtotal),
                     tax |-> Fmt2(cart.Tax),
                     shipping |-> Fmt2(cart.Shipping),
                     total |-> Fmt2(cart.Total),
                     item_count |-> cart.ItemCount]
        d1 == HSet(db, cartKey, cartData)
        d2 == Expire(d1, cartKey, CartTTL)
        d3 == IF lag THEN TickDB(d2) ELSE d2
    IN  SaveItems(d3, cart.SessionID, cart.Items, DOMAIN cart.Items)

(* saveCartToRedis that stops part way: the metadata hash and its expiry are
   written, then the item hashes of written only; the HSet of the next item
   returns an error, or the process ends there.  The items are written in
   the order of a map iteration, so any set of them can be the one written
   first. *)
saveCartToRedisStopped(db, cart, written) ==
    LET cartKey == CartKey(cart.SessionID)
        cartData == [subtotal |-> Fmt2(cart.Subtotal),
                     tax |-> Fmt2(cart.Tax),
                     shipping |-> Fmt2(cart.Shipping),
                     total |-> Fmt2(cart.Total),
                     item_count |-> cart.ItemCount]
        d1 == HSet(db, cartKey, cartData)
        d2 == Expire(d1, cartKey, CartTTL)
    IN  SaveItems(d2, cart.SessionID, cart.Items, written)

(* Two calls on one session that overlap: each has read the cart from db
   before the other has written (no lock and no transaction is held from
   GetCart to saveCartToRedis), then the save of cart1 runs and the save of
   cart2 after it *)
OverlappingSaves(db, cart1, cart2) ==
    saveCartToRedis(saveCartToRedis(db, cart1, FALSE), cart2, FALSE)

(* saveCartToRedis that ends between the HSet of the metadata hash and its
   Expire: the process stops there, or the Expire, whose result the code
   drops, is the last command to reach Redis *)
saveCartToRedisCutBeforeExpire(db, cart) ==
    LET cartKey == CartKey(cart.SessionID)
        cartData == [subtotal |-> Fmt2(cart.Subtotal),
                     tax |-> Fmt2(cart.Tax),
                     shipping |-> Fmt2(cart.Shipping),
                     total |-> Fmt2(cart.Total),
                     item_count |-> cart.ItemCount]
    IN  HSet(db, cartKey, cartData)

WithItem(items, sku, item) ==
    [k \in (DOMAIN items) \cup {sku} |-> IF k = sku THEN item ELSE items[k]]

WithoutItem(items, sku) == [k \in (DOMAIN items) \ {sku} |-> items[k]]

(* AddToCart that prices an item already in the cart at the product's
   current price *)
RedisAddToCartCurrentPrice(db, sessionID, sku, quantity, product, ok, lag) ==
    LET g == RedisGetCart(db, sessionID, ok)
        cart == g.cart
        item == IF sku \in DOMAIN cart.Items
                THEN LET existingItem == cart.Items[sku]
                     IN  [existingItem EXCEPT
                            !.Quantity = existingItem.Quantity + quantity,
                            !.Price = product.Price,
                            !.Subtotal = (existingItem.Quantity + quantity)
                                            * product.Price]
                ELSE [SKU |-> product.SKU, Price |-> product.Price,
                      Quantity |-> quantity, Subtotal |-> quantity * product.Price]
        cart1 == calculateCartTotals([cart EXCEPT !.Items = WithItem(@, sku, item)])
    IN  IF g.err # "" THEN [db |-> db, err |-> g.err, cart |-> NoCart]
        ELSE [db |-> saveCartToRedis(db, cart1, lag), err |-> "", cart |-> cart1]

RedisAddToCart(db, sessionID, sku, quantity, product, ok, lag) ==
    LET g == RedisGetCart(db, sessionID, ok)
        cart == g.cart
        item == IF sku \in DOMAIN cart.Items
                THEN LET existingItem == cart.Items[sku]
                     IN  [existingItem EXCEPT
                            !.Quantity = existingItem.Quantity + quantity,
                            !.Subtotal = (existingItem.Quantity + quantity)
                                            * existingItem.Price]
                ELSE [SKU |-> product.SKU, Price |-> product.Price,
                      Quantity |-> quantity, Subtotal |-> quantity * product.Price]
        cart1 == calculateCartTotals([cart EXCEPT !.Items = WithItem(@, sku, item)])
    IN  IF g.err # "" THEN [db |-> db, err |-> g.err, cart |-> NoCart]
        ELSE [db |-> saveCartToRedis(db, cart1, lag), err |-> "", cart |-> cart1]

RedisUpdateCartItem(db, sessionID, sku, quantity, ok, lag) ==
    LET g == RedisGetCart(db, sessionID, ok)
        cart == g.cart
        item == cart.Items[sku]
        items1 == IF quantity = 0 THEN WithoutItem(cart.Items, sku)
                  ELSE WithItem(cart.Items, sku,
                                [item EXCEPT !.Quantity = quantity,
                                             !.Subtotal = quantity * item.Price])
        d1 == IF quantity = 0 THEN Del(db, {ItemKey(sessionID, sku)}) ELSE db
        cart1 == calculateCartTotals([cart EXCEPT !.Items = items1])
    IN  IF g.err # "" THEN [db |-> db, err |-> g.err, cart |-> NoCart]
        ELSE IF sku \notin DOMAIN cart.Items
             THEN [db |-> db, err |-> ErrItemNotFound, cart |-> NoCart]
        ELSE [db |-> saveCartToRedis(d1, cart1, lag), err |-> "", cart |-> cart1]

RedisRemoveFromCart(db, sessionID, sku, ok, lag) ==
    RedisUpdateCartItem(db, sessionID, sku, 0, ok, lag)

(* ClearCart that deletes the item keys only *)
RedisClearCartItemsOnly(db, sessionID, ok) ==
    IF ~ok THEN [db |-> db, err |-> ErrCache]
    ELSE [db |-> Del(db, Keys(db, ItemPattern(sessionID))), err |-> ""]

(* KEYS cart:{sessionID}* and DEL of what it returns *)
RedisClearCart(db, sessionID, ok) ==
    IF ~ok THEN [db |-> db, err |-> ErrCache]
    ELSE [db |-> Del(db, Keys(db, CartKey(sessionID))), err |-> ""]

----------------------------------------------------------------------------
(* Cart handlers (internal/router).  quantity is the number in the request
   body; lag is passed on to saveCartToRedis. *)

CartResponse(op, status, err, cart) ==
    [op |-> op, status |-> status, err |-> err, cart |-> cart]

(* GetCart that saves the cart it has read *)
GetCartResultSaving(st, db, sessionID, cacheOK) ==
    LET g == RedisGetCart(db, sessionID, cacheOK)
        R(status, err, cart) == CartResponse("GetCart", status, err, cart)
    IN  IF sessionID = <<>> THEN [store |-> st, db |-> db, resp |-> R(400, "", NoCart)]
        ELSE IF g.err # "" THEN [store |-> st, db |-> db, resp |-> R(500, g.err, NoCart)]
        ELSE [store |-> st, db |-> saveCartToRedis(db, g.cart, FALSE),
              resp |-> R(200, "", g.cart)]

GetCartResult(st, db, sessionID, cacheOK) ==
    LET g == RedisGetCart(db, sessionID, cacheOK)
        R(status, err, cart) == CartResponse("GetCart", status, err, cart)
    IN  IF sessionID = <<>> THEN [store |-> st, db |-> db, resp |-> R(400, "", NoCart)]
        ELSE IF g.err # "" THEN [store |-> st, db |-> db, resp |-> R(500, g.err, NoCart)]
        ELSE [store |-> st, db |-> db, resp |-> R(200, "", g.cart)]

(* binding:"required,min=1" rejects a quantity below 1 *)
AddToCartResult(st, db, sessionID, sku, quantity, storeOK, cacheOK, lag) ==
    LET m == MongoGetProductBySKU(st, sku, storeOK)
        a == RedisAddToCart(db, sessionID, sku, quantity, m.product, cacheOK, lag)
        R(status, err, cart) == CartResponse("AddToCart", status, err, cart)
    IN  IF sessionID = <<>> THEN [store |-> st, db |-> db, resp |-> R(400, "", NoCart)]
        ELSE IF quantity < 1 THEN [store |-> st, db |-> db, resp |-> R(400, "", NoCart)]
        ELSE IF m.err = "product not found"
             THEN [store |-> st, db |-> db, resp |-> R(404, m.err, NoCart)]
        ELSE IF m.err # "" THEN [store |-> st, db |-> db, resp |-> R(500, m.err, NoCart)]
        ELSE IF m.product.Stock < quantity
             THEN [store |-> st, db |-> db, resp |-> R(400, "", NoCart)]
        ELSE IF a.err # "" THEN [store |-> st, db |-> a.db, resp |-> R(500, a.err, NoCart)]
        ELSE [store |-> st, db |-> a.db, resp |-> R(201, "", a.cart)]

(* binding:"required,min=0" rejects a negative quantity, and a quantity of
   0 as a missing value *)
UpdateCartItemResult(st, db, sessionID, sku, quantity, cacheOK, lag) ==
    LET u == RedisUpdateCartItem(db, sessionID, sku, quantity, cacheOK, lag)
        R(status, err, cart) == CartResponse("UpdateCartItem", status, err, cart)
    IN  IF sessionID = <<>> \/ sku = "" THEN [store |-> st, db |-> db, resp |-> R(400, "", NoCart)]
        ELSE IF quantity <= 0 THEN [store |-> st, db |-> db, resp |-> R(400, "", NoCart)]
        ELSE IF u.err = ErrItemNotFound
             THEN [store |-> st, db |-> u.db, resp |-> R(404, u.err, NoCart)]
        ELSE IF u.err # "" THEN [store |-> st, db |-> u.db, resp |-> R(500, u.err, NoCart)]
        ELSE [store |-> st, db |-> u.db, resp |-> R(200, "", u.cart)]

RemoveFromCartResult(st, db, sessionID, sku, cacheOK, lag) ==
    LET u == RedisRemoveFromCart(db, sessionID, sku, cacheOK, lag)
        R(status, err, cart) == CartResponse("RemoveFromCart", status, err, cart)
    IN  IF sessionID = <<>> \/ sku = "" THEN [store |-> st, db |-> db, resp |-> R(400, "", NoCart)]
        ELSE IF u.err # "" THEN [store |-> st, db |-> u.db, resp |-> R(500, u.err, NoCart)]
        ELSE [store |-> st, db |-> u.db, resp |-> R(200, "", u.cart)]

ClearCartResult(st, db, sessionID, cacheOK) ==
    LET c == RedisClearCart(db, sessionID, cacheOK)
        R(status, err, cart) == CartResponse("ClearCart", status, err, cart)
    IN  IF sessionID = <<>> THEN [store |-> st, db |-> db, resp |-> R(400, "", NoCart)]
        ELSE IF c.err # "" THEN [store |-> st, db |-> c.db, resp |-> R(500, c.err, NoCart)]
        ELSE [store |-> st, db |-> c.db, resp |-> R(200, "", NoCart)]

----------------------------------------------------------------------------
(* Requests of the cart handlers *)

Sessions == {<<"s1">>}

(* A SKU that no stored product has *)
UnknownSKU == "SKU-C"

(* The quantities of the request bodies, a negative one and zero included *)
QtySet == (0 - 1)..3

(* The store of the cart runs: 3 of SKU-A and 1 of SKU-B in stock *)
Catalog(priceA, priceB) ==
    {[ID |-> NewObjectID("SKU-A"), SKU |-> "SKU-A", Category |-> "cat1",
      Price |-> priceA, Stock |-> 3, CreatedAt |-> CreationTime],
     [ID |-> NewObjectID("SKU-B"), SKU |-> "SKU-B", Category |-> "cat1",
      Price |-> priceB, Stock |-> 1, CreatedAt |-> CreationTime]}

(* POST /cart/:sessionId/items *)
AddRequests ==
    {[sessionID |-> s, sku |-> k, quantity |-> n, storeOK |-> f.storeOKs[1],
      cacheOK |-> f.cacheOKs[1], lag |-> l] :
        s \in Sessions, k \in SKUs \cup {UnknownSKU}, n \in QtySet,
        f \in Faults(1), l \in BOOLEAN}

(* PUT /cart/:sessionId/items/:sku *)
UpdateRequests ==
    {[sessionID |-> s, sku |-> k, quantity |-> n, cacheOK |-> c, lag |-> l] :
        s \in Sessions, k \in SKUs, n \in QtySet, c \in BOOLEAN, l \in BOOLEAN}

(* DELETE /cart/:sessionId/items/:sku *)
RemoveRequests ==
    {[sessionID |-> s, sku |-> k, cacheOK |-> c, lag |-> l] :
        s \in Sessions, k \in SKUs, c \in BOOLEAN, l \in BOOLEAN}

(* GET /cart/:sessionId and DELETE /cart/:sessionId *)
SessionRequests == {[sessionID |-> s, cacheOK |-> c] : s \in Sessions, c \in BOOLEAN}

GetCartDo(st, db, q) == GetCartResult(st, db, q.sessionID, q.cacheOK)
AddToCartDo(st, db, q) ==
    AddToCartResult(st, db, q.sessionID, q.sku, q.quantity, q.storeOK, q.cacheOK, q.lag)
UpdateCartItemDo(st, db, q) ==
    UpdateCartItemResult(st, db, q.sessionID, q.sku, q.quantity, q.cacheOK, q.lag)
RemoveFromCartDo(st, db, q) ==
    RemoveFromCartResult(st, db, q.sessionID, q.sku, q.cacheOK, q.lag)
ClearCartDo(st, db, q) == ClearCartResult(st, db, q.sessionID, q.cacheOK)

----------------------------------------------------------------------------
(* Actions of the cart handlers *)

(* No item hash holds more than the model's bound *)
BoundedCart(db) ==
    \A k \in DOMAIN db :
        (db[k].type = "hash" /\ "quantity" \in DOMAIN db[k].val)
            => db[k].val.quantity <= MaxQty

GetCart ==
    \E q \in SessionRequests :
        LET r == GetCartDo(store, rdb, q)
        IN  /\ BoundedCart(r.db)
            /\ store' = r.store
            /\ rdb' = r.db

AddToCart ==
    \E q \in AddRequests :
        LET r == AddToCartDo(store, rdb, q)
        IN  /\ BoundedCart(r.db)
            /\ store' = r.store
            /\ rdb' = r.db

UpdateCartItem ==
    \E q \in UpdateRequests :
        LET r == UpdateCartItemDo(store, rdb, q)
        IN  /\ BoundedCart(r.db)
            /\ store' = r.store
            /\ rdb' = r.db

RemoveFromCart ==
    \E q \in RemoveRequests :
        LET r == RemoveFromCartDo(store, rdb, q)
        IN  /\ BoundedCart(r.db)
            /\ store' = r.store
            /\ rdb' = r.db

ClearCart ==
    \E q \in SessionRequests :
        LET r == ClearCartDo(store, rdb, q)
        IN  /\ BoundedCart(r.db)
            /\ store' = r.store
            /\ rdb' = r.db

(* The price of a product changes in the store, as an edit of the product
   does it *)
PriceChange ==
    \E sku \in SKUs, price \in PriceSet :
        /\ store' = MongoUpdateProductBySKU(store, sku, Map1("price", price), TRUE).store
        /\ UNCHANGED rdb

InitCart ==
    /\ store = Catalog(1000 * Cent, 999 * Cent)
    /\ rdb = <<>>

NextCart ==
    \/ GetCart
    \/ AddToCart
    \/ UpdateCartItem
    \/ RemoveFromCart
    \/ ClearCart
    \/ PriceChange
    \/ Tick

SpecCart == InitCart /\ [][NextCart]_vars

----------------------------------------------------------------------------
(* Properties of the product cache and the product handlers, under Spec *)

(* The products a handler can put *)
ProductUniverse ==
    {ToProduct(s, c, p) : s \in SKUs, c \in Categories, p \in PriceSet}

Hit(P) == [err |-> FALSE, product |-> P]

(* Every product the handler reports as put is what a lookup then returns *)
ReadBack(r) ==
    \A i \in DOMAIN r.resp.put :
        GetProductBySKUFromCache(r.db, r.resp.put[i].SKU, TRUE) = Hit(r.resp.put[i])

(* C2: in every reachable cache state and for every product P, a
   CacheSingleProduct(P) that succeeds followed by
   GetProductBySKUFromCache(P.SKU) is a hit whose value is P; the same holds
   of the put made by a GET miss and by an edit. *)
C2_PutThenLookupHits ==
    /\ \A P \in ProductUniverse :
        LET w == CacheSingleProduct(rdb, P, TRUE)
        IN  /\ ~w.err
            /\ GetProductBySKUFromCache(w.db, P.SKU, TRUE) = Hit(P)
    /\ \A q \in GetRequests : ReadBack(GetProductBySKUDo(store, rdb, q))
    /\ \A q \in EditRequests : ReadBack(EditProductBySKUDo(store, rdb, q))

(* A put that replaces another cached version of the product *)
C2_Witness ==
    \E P \in ProductUniverse :
        LET c == GetProductBySKUFromCache(rdb, P.SKU, TRUE)
            w == CacheSingleProduct(rdb, P, TRUE)
        IN  /\ ~c.err
            /\ c.product # P
            /\ GetProductBySKUFromCache(w.db, P.SKU, TRUE) = Hit(P)

(* C3: whatever puts preceded, RemoveProductFromCache(P) that succeeds,
   directly or after one more put of P, is followed by a miss of
   GetProductBySKUFromCache(P.SKU); so is the removal made by a delete. *)
C3_RemoveThenLookupMisses ==
    /\ \A P \in ProductUniverse :
        LET w == CacheSingleProduct(rdb, P, TRUE)
            d == RemoveProductFromCache(w.db, P, TRUE)
            e == RemoveProductFromCache(rdb, P, TRUE)
        IN  /\ ~d.err /\ GetProductBySKUFromCache(d.db, P.SKU, TRUE).err
            /\ ~e.err /\ GetProductBySKUFromCache(e.db, P.SKU, TRUE).err
    /\ \A q \in DeleteRequests :
        LET r == DeleteProductBySKUDo(store, rdb, q)
        IN  r.resp.removed # <<>> => GetProductBySKUFromCache(r.db, q.sku, TRUE).err

(* A removal of a product that the cache holds *)
C3_Witness ==
    \E P \in ProductUniverse :
        LET d == RemoveProductFromCache(rdb, P, TRUE)
        IN  /\ GetProductBySKUFromCache(rdb, P.SKU, TRUE) = Hit(P)
            /\ GetProductBySKUFromCache(d.db, P.SKU, TRUE).err

Succeeded(status) == status \in {200, 201, 207}

AllUp(oks) == [i \in DOMAIN oks |-> TRUE]

(* The request r answers as r0, the same request with the cache up, does,
   succeeds, and leaves the store as r0 does *)
SameOutcome(r, r0) ==
    r.resp.cacheErr =>
        /\ r.resp.status = r0.resp.status
        /\ Succeeded(r.resp.status)
        /\ r.store = r0.store
        /\ r.resp.products = r0.resp.products
        /\ r.resp.product = r0.resp.product

(* C8: when the cache step of a create, an update, a delete or a bulk
   request fails after the store write succeeded, the request has the status
   it has when the cache step succeeds, a success status, and the store
   holds the committed change. *)
C8_CacheFailureKeepsStatus ==
    /\ \A q \in EditRequests :
        LET r == EditProductBySKUDo(store, rdb, q)
        IN  /\ SameOutcome(r, EditProductBySKUDo(store, rdb, [q EXCEPT !.putOK = TRUE]))
            /\ r.resp.cacheErr => r.resp.product \in r.store
    /\ \A q \in DeleteRequests :
        LET r == DeleteProductBySKUDo(store, rdb, q)
        IN  /\ SameOutcome(r, DeleteProductBySKUDo(store, rdb, [q EXCEPT !.cacheOK = TRUE]))
            /\ r.resp.cacheErr => Matching(r.store, q.sku) = {}
    /\ \A q \in CreateRequests :
        LET r == CreateNewProductsDo(store, rdb, q)
        IN  FreshSKUs(store, q) =>
            /\ SameOutcome(r, CreateNewProductsDo(store, rdb, [q EXCEPT !.putOKs = AllUp(@)]))
            /\ r.resp.cacheErr =>
                \A i \in DOMAIN r.resp.products : r.resp.products[i] \in r.store
    /\ \A q \in BulkEditRequests :
        SameOutcome(BulkEditProductsDo(store, rdb, q),
                    BulkEditProductsDo(store, rdb, [q EXCEPT !.putOKs = AllUp(@)]))
    /\ \A q \in BulkDeleteRequests :
        SameOutcome(BulkDeleteProductsDo(store, rdb, q),
                    BulkDeleteProductsDo(store, rdb, [q EXCEPT !.cacheOKs = AllUp(@)]))

(* A delete whose cache removal fails: it answers 200, the product is gone
   from the store and still served by the cache *)
C8_Witness ==
    \E q \in DeleteRequests :
        LET r == DeleteProductBySKUDo(store, rdb, q)
        IN  /\ r.resp.cacheErr
            /\ r.resp.status = 200
            /\ Matching(r.store, q.sku) = {}
            /\ ~GetProductBySKUFromCache(r.db, q.sku, TRUE).err

(* C9: in a create request that succeeds, every product whose own put Redis
   would answer is in the cache afterwards, whether or not the put of an
   earlier product of the batch failed. *)
C9_LaterProductsStillCached ==
    \A q \in CreateRequests :
        LET r == CreateNewProductsDo(store, rdb, q)
        IN  (FreshSKUs(store, q) /\ r.resp.status = 201) =>
            \A i \in DOMAIN r.resp.products :
                q.putOKs[i] =>
                    GetProductBySKUFromCache(r.db, r.resp.products[i].SKU, TRUE)
                        = Hit(r.resp.products[i])

(* C10: GetProductBySKU for a SKU that neither the cache nor the store
   holds, the store answering, is a 404 that has asked the store and leaves
   cache and store as they were; the same request repeated asks the store
   again and is a 404 again. *)
C10_UnknownSKUNotCached ==
    \A q \in GetRequests :
        (/\ ValidSKU(q.sku)
         /\ GetProductBySKUFromCache(rdb, q.sku, TRUE).err
         /\ Matching(store, q.sku) = {}
         /\ q.storeOK) =>
            LET r == GetProductBySKUDo(store, rdb, q)
                r2 == GetProductBySKUDo(r.store, r.db, q)
            IN  /\ r.resp.status = 404
                /\ r.resp.storeQueried
                /\ r.db = rdb
                /\ r.store = store
                /\ r2.resp.status = 404
                /\ r2.resp.storeQueried
                /\ r2.db = rdb

(* An unknown SKU asked for while the cache holds another product *)
C10_Witness ==
    \E q \in GetRequests :
        /\ ValidSKU(q.sku)
        /\ GetProductBySKUFromCache(rdb, q.sku, TRUE).err
        /\ Matching(store, q.sku) = {}
        /\ q.storeOK
        /\ \E s \in SKUs : ~GetProductBySKUFromCache(rdb, s, TRUE).err
        /\ GetProductBySKUDo(store, rdb, q).resp.status = 404

----------------------------------------------------------------------------
(* Properties of the cart, under SpecCart *)

(* x rounded to 2 decimals *)
Round2(x) == ParseFloat(Fmt2(x))

SumField(items, f) ==
    SumOver([k \in DOMAIN items |-> items[k][f]], DOMAIN items)

TotalsHold(cart) ==
    /\ cart.Subtotal = SumField(cart.Items, "Subtotal")
    /\ cart.Tax = Round2(cart.Subtotal \div 10)
    /\ cart.Shipping = IF 0 < cart.Subtotal /\ cart.Subtotal < FreeShippingFrom
                       THEN ShippingFee ELSE 0
    /\ cart.Total = cart.Subtotal + cart.Tax + cart.Shipping
    /\ cart.ItemCount = SumField(cart.Items, "Quantity")

(* The cart of the session is there as a whole or not at all: no item hash
   has outlived the metadata *)
Whole(db, sessionID) ==
    Has(db, CartKey(sessionID)) \/ Keys(db, ItemPattern(sessionID)) = {}

(* The cart the call returned and the cart GetCart then reads both satisfy
   the totals *)
TotalsAfter(r, sessionID, ok) ==
    r.resp.status = ok =>
        /\ TotalsHold(r.resp.cart)
        /\ TotalsHold(RedisGetCart(r.db, sessionID, TRUE).cart)

(* C1: after every successful AddToCart, UpdateCartItem and RemoveFromCart
   on a cart no part of which has expired, the cart the call returns and the
   cart GetCart reads back have subtotal = sum of the item subtotals, tax =
   subtotal x 0.10 rounded to 2 decimals, shipping = 5.99 if 0 < subtotal <
   50 and 0 otherwise, total = subtotal + tax + shipping and item_count =
   sum of the item quantities. *)
C1_TotalsAfterEveryMutation ==
    /\ \A q \in AddRequests :
        (Whole(rdb, q.sessionID) /\ ~q.lag) =>
            TotalsAfter(AddToCartDo(store, rdb, q), q.sessionID, 201)
    /\ \A q \in UpdateRequests :
        (Whole(rdb, q.sessionID) /\ ~q.lag) =>
            TotalsAfter(UpdateCartItemDo(store, rdb, q), q.sessionID, 200)
    /\ \A q \in RemoveRequests :
        (Whole(rdb, q.sessionID) /\ ~q.lag) =>
            TotalsAfter(RemoveFromCartDo(store, rdb, q), q.sessionID, 200)

(* C4: a RemoveFromCart that follows a successful RemoveFromCart of the same
   SKU of the same session returns no error and leaves the cart as it was. *)
C4_SecondRemoveIsNoOp ==
    \A q \in RemoveRequests :
        LET r1 == RemoveFromCartDo(store, rdb, q)
            r2 == RemoveFromCartDo(r1.store, r1.db, [q EXCEPT !.lag = FALSE])
        IN  (q.cacheOK /\ r1.resp.status = 200) =>
                /\ r2.resp.status = 200
                /\ r2.resp.err = ""
                /\ r2.db = r1.db

(* C5: a successful AddToCart of a SKU the cart already holds adds the
   requested quantity to the item's quantity, keeps the item's stored unit
   price and makes the item subtotal new quantity x that price, in the cart
   returned and in the cart read back, whatever the product's price in the
   store is now; adding 3 to a cart of 2 at 10.00 gives quantity 5, item
   subtotal 50.00, cart subtotal 50.00, shipping 0, tax 5.00, total 55.00. *)
C5_AddToExistingUsesSnapshot ==
    \A q \in AddRequests :
        LET g == RedisGetCart(rdb, q.sessionID, TRUE)
            r == AddToCartDo(store, rdb, q)
        IN  (q.sku \in DOMAIN g.cart.Items /\ r.resp.status = 201) =>
            LET old == g.cart.Items[q.sku]
                new == r.resp.cart.Items[q.sku]
                back == RedisGetCart(r.db, q.sessionID, TRUE).cart
            IN  /\ new.Quantity = old.Quantity + q.quantity
                /\ new.Price = old.Price
                /\ new.Subtotal = (old.Quantity + q.quantity) * old.Price
                /\ back.Items[q.sku] = new
                /\ (/\ DOMAIN g.cart.Items = {q.sku}
                    /\ old.Price = 1000 * Cent
                    /\ old.Quantity = 2
                    /\ q.quantity = 3) =>
                        /\ new.Quantity = 5
                        /\ new.Subtotal = 5000 * Cent
                        /\ \A c \in {r.resp.cart, back} :
                            /\ c.Subtotal = 5000 * Cent
                            /\ c.Shipping = 0
                            /\ c.Tax = 500 * Cent
                            /\ c.Total = 5500 * Cent

(* 3 more of a product added to a cart that holds 2 of it at 10.00, the
   product costing something else in the store by now *)
C5_Witness ==
    \E q \in AddRequests :
        LET g == RedisGetCart(rdb, q.sessionID, TRUE)
            r == AddToCartDo(store, rdb, q)
        IN  /\ DOMAIN g.cart.Items = {q.sku}
            /\ g.cart.Items[q.sku].Price = 1000 * Cent
            /\ g.cart.Items[q.sku].Quantity = 2
            /\ q.quantity = 3
            /\ MongoGetProductBySKU(store, q.sku, TRUE).product.Price # 1000 * Cent
            /\ r.resp.status = 201
            /\ r.resp.cart.Total = 5500 * Cent

(* C6: GetCart never changes the cache or the store; on a session that has
   no cart key, Redis answering, it returns 200 and an empty cart with
   item_count 0 and subtotal, tax, shipping and total 0, and the session
   still has no key afterwards. *)
C6_GetCartOnAbsentCartIsEmpty ==
    \A q \in SessionRequests :
        LET r == GetCartDo(store, rdb, q)
        IN  /\ r.db = rdb
            /\ r.store = store
            /\ (Keys(rdb, CartKey(q.sessionID)) = {} /\ q.cacheOK) =>
                /\ r.resp.status = 200
                /\ r.resp.err = ""
                /\ DOMAIN r.resp.cart.Items = {}
                /\ r.resp.cart.ItemCount = 0
                /\ r.resp.cart.Subtotal = 0
                /\ r.resp.cart.Tax = 0
                /\ r.resp.cart.Shipping = 0
                /\ r.resp.cart.Total = 0
                /\ Keys(GetCartDo(r.store, r.db, q).db, CartKey(q.sessionID)) = {}

(* GetCart on a session without keys *)
C6_Witness ==
    \E q \in SessionRequests :
        /\ Keys(rdb, CartKey(q.sessionID)) = {}
        /\ q.cacheOK
        /\ GetCartDo(store, rdb, q).resp.status = 200
        /\ GetCartDo(store, rdb, q).resp.cart.ItemCount = 0

(* The cache without any key of the session *)
NeverCreated(db, sessionID) == Del(db, Keys(db, CartKey(sessionID)))

(* C7: once the metadata key of a session's cart has expired, GetCart and an
   AddToCart followed by GetCart answer as they do on the cache without any
   key of the session: no item written before the expiry is shown or
   counted. *)
C7_ExpiredCartIsAsNeverCreated ==
    \A s \in Sessions :
        ~Has(rdb, CartKey(s)) =>
            /\ RedisGetCart(rdb, s, TRUE) = RedisGetCart(NeverCreated(rdb, s), s, TRUE)
            /\ \A q \in AddRequests :
                q.sessionID = s =>
                    LET r == AddToCartDo(store, rdb, q)
                        f == AddToCartDo(store, NeverCreated(rdb, s), q)
                    IN  /\ r.resp = f.resp
                        /\ RedisGetCart(r.db, s, TRUE) = RedisGetCart(f.db, s, TRUE)

(* C11: an AddToCart that names a SKU no stored product has, with a
   quantity of at least 1 and the store answering, is answered 404 and
   leaves the cache as it was. *)
C11_UnknownProductIsNotFound ==
    \A q \in AddRequests :
        (q.quantity >= 1 /\ q.storeOK /\ Matching(store, q.sku) = {}) =>
            LET r == AddToCartDo(store, rdb, q)
            IN  /\ r.resp.status = 404
                /\ r.db = rdb

(* The SKU is not in the cart GetCart reads for the session *)
NotInCart(db, sessionID, sku) ==
    sku \notin DOMAIN RedisGetCart(db, sessionID, TRUE).cart.Items

(* The request failed with ItemNotFound, answered 404 and wrote nothing *)
ItemNotFoundOutcome(r) ==
    /\ r.resp.err = ErrItemNotFound
    /\ r.resp.status = 404
    /\ r.db = rdb
    /\ r.store = store

(* C12: UpdateCartItem and RemoveFromCart on a SKU that is not in the
   session's cart, Redis answering, fail with ItemNotFound, leave every key
   and expiry of the cache as it was, and are answered 404, on the update
   endpoint and on the remove endpoint alike. *)
C12_MissingItemIsNotFound ==
    /\ \A q \in UpdateRequests :
        (q.quantity >= 1 /\ q.cacheOK /\ NotInCart(rdb, q.sessionID, q.sku)) =>
            ItemNotFoundOutcome(UpdateCartItemDo(store, rdb, q))
    /\ \A q \in RemoveRequests :
        (q.cacheOK /\ NotInCart(rdb, q.sessionID, q.sku)) =>
            ItemNotFoundOutcome(RemoveFromCartDo(store, rdb, q))

(* C13: ClearCart, Redis answering, is answered 200 whatever the session's
   cart holds, leaves no metadata key and no item key of the session, the
   GetCart that follows returns the empty cart, and a second ClearCart is
   answered 200 and leaves the cache as the first did. *)
C13_ClearCartEmptiesTheCart ==
    \A q \in SessionRequests :
        q.cacheOK =>
            LET r == ClearCartDo(store, rdb, q)
                g == GetCartDo(r.store, r.db, q)
                r2 == ClearCartDo(r.store, r.db, q)
            IN  /\ r.resp.status = 200
                /\ r.store = store
                /\ ~Has(r.db, CartKey(q.sessionID))
                /\ Keys(r.db, ItemPattern(q.sessionID)) = {}
                /\ g.resp.status = 200
                /\ g.resp.cart = createEmptyCart(q.sessionID)
                /\ r2.resp.status = 200
                /\ r2.db = r.db

(* ClearCart on a cart that holds two items *)
C13_Witness ==
    \E q \in SessionRequests :
        /\ q.cacheOK
        /\ Has(rdb, CartKey(q.sessionID))
        /\ Cardinality(Keys(rdb, ItemPattern(q.sessionID))) = 2
        /\ Keys(ClearCartDo(store, rdb, q).db, CartKey(q.sessionID)) = {}

(* C14: an UpdateCartItem request for a SKU in the cart, Redis answering,
   is answered 200; with quantity 0 it leaves the cache and returns the cart
   that RemoveFromCart leaves and returns on the same state, without the
   item key and without the SKU; with a quantity above 0 the item has that
   quantity and the subtotal quantity x its stored price. *)
C14_UpdateToZeroIsRemove ==
    \A q \in UpdateRequests :
        (q.cacheOK /\ ~NotInCart(rdb, q.sessionID, q.sku)) =>
            LET r == UpdateCartItemDo(store, rdb, q)
                d == RemoveFromCartResult(store, rdb, q.sessionID, q.sku, q.cacheOK, q.lag)
                old == RedisGetCart(rdb, q.sessionID, TRUE).cart.Items[q.sku]
            IN  /\ r.resp.status = 200
                /\ q.quantity = 0 =>
                    /\ r.db = d.db
                    /\ r.resp.cart = d.resp.cart
                    /\ ~Has(r.db, ItemKey(q.sessionID, q.sku))
                    /\ q.sku \notin DOMAIN r.resp.cart.Items
                /\ q.quantity > 0 =>
                    /\ r.resp.cart.Items[q.sku].Quantity = q.quantity
                    /\ r.resp.cart.Items[q.sku].Subtotal = q.quantity * old.Price

----------------------------------------------------------------------------
(* Properties of the product handlers, under Spec (continued) *)

(* sku, _id and created_at of every stored product *)
Identities(st) == {<<d.SKU, d.ID, d.CreatedAt>> : d \in st}

(* C15: every stored product has the _id and the created_at it was created
   with under its SKU, and no EditProductBySKU and no BulkEditProducts
   request, whatever its payload names, changes the sku, _id or created_at
   of a stored product. *)
C15_ImmutableFieldsKept ==
    /\ \A d \in store : d.ID = NewObjectID(d.SKU) /\ d.CreatedAt = CreationTime
    /\ \A q \in EditRequests :
        Identities(EditProductBySKUDo(store, rdb, q).store) = Identities(store)
    /\ \A q \in BulkEditRequests :
        Identities(BulkEditProductsDo(store, rdb, q).store) = Identities(store)

(* An edit and a bulk edit whose payloads name sku or created_at next to a
   category change a stored product *)
C15_Witness ==
    /\ \E q \in EditRequests :
        /\ DOMAIN q.updates \cap ImmutableFields # {}
        /\ EditProductBySKUDo(store, rdb, q).resp.status = 200
        /\ EditProductBySKUDo(store, rdb, q).store # store
    /\ \E q \in BulkEditRequests :
        /\ \E i \in DOMAIN q.bulkUpdates : "created_at" \in DOMAIN q.bulkUpdates[i]
        /\ BulkEditProductsDo(store, rdb, q).resp.status = 200
        /\ BulkEditProductsDo(store, rdb, q).store # store

(* The payload names an immutable field and a field that may change *)
Mixed(updates) ==
    /\ DOMAIN updates \cap ImmutableFields # {}
    /\ DOMAIN updates \ ImmutableFields # {}

(* C16 as stated: an EditProductBySKU of a stored product whose payload
   names an immutable field together with a mutable field is answered 400
   and leaves store and cache as they were. *)
C16_MixedPayloadRejected ==
    \A q \in EditRequests :
        (ValidSKU(q.sku) /\ Mixed(q.updates) /\ q.storeOK
            /\ Matching(store, q.sku) # {}) =>
            LET r == EditProductBySKUDo(store, rdb, q)
            IN  /\ r.resp.status = 400
                /\ r.store = store
                /\ r.db = rdb

(* C16: an EditProductBySKU of a stored product, the store answering, whose
   payload names an immutable field together with a mutable field is
   answered 200: the immutable field is dropped, the stored product takes
   the mutable fields and keeps sku, _id and created_at, and when the cache
   step succeeds the cache holds the updated product.  A payload that names
   immutable fields only is answered 400 and changes nothing. *)
C16_MixedPayloadAppliedWithoutImmutable ==
    \A q \in EditRequests :
        LET r == EditProductBySKUDo(store, rdb, q)
            old == MongoGetProductBySKU(store, q.sku, TRUE).product
            new == ApplySet(old, StripImmutable(q.updates))
        IN  /\ (ValidSKU(q.sku) /\ Mixed(q.updates) /\ q.storeOK
                    /\ Matching(store, q.sku) # {}) =>
                /\ r.resp.status = 200
                /\ r.resp.product = new
                /\ r.store = (store \ {old}) \cup {new}
                /\ <<new.SKU, new.ID, new.CreatedAt>> = <<old.SKU, old.ID, old.CreatedAt>>
                /\ \A f \in DOMAIN q.updates :
                    f = "category" => new.Category = q.updates[f]
                /\ q.putOK => GetProductBySKUFromCache(r.db, q.sku, TRUE) = Hit(new)
            /\ (ValidSKU(q.sku) /\ DOMAIN q.updates # {}
                    /\ DOMAIN q.updates \subseteq ImmutableFields) =>
                /\ r.resp.status = 400
                /\ r.store = store
                /\ r.db = rdb

(* A payload naming sku and category changes the category of a stored
   product *)
C16_Witness ==
    \E q \in EditRequests :
        LET r == EditProductBySKUDo(store, rdb, q)
            old == MongoGetProductBySKU(store, q.sku, TRUE).product
        IN  /\ Mixed(q.updates)
            /\ "sku" \in DOMAIN q.updates
            /\ Matching(store, q.sku) # {}
            /\ r.resp.status = 200
            /\ r.resp.product.Category # old.Category
            /\ r.resp.product.SKU = q.sku

(* GetProductBySKU right after the request that gave r, Redis answering and
   the store down *)
NextGet(r, sku) == GetProductBySKUResult(r.store, r.db, sku, TRUE, FALSE, FALSE)

(* The GET is a cache HIT that returns product p, the store's document *)
ServedFromCache(g, r, p) ==
    /\ g.resp.status = 200
    /\ g.resp.xcache = "HIT"
    /\ ~g.resp.storeQueried
    /\ g.resp.product = p
    /\ p \in r.store

(* C17: after an EditProductBySKU answered 200 whose cache step succeeded,
   and after a BulkEditProducts all of whose cache steps succeeded, the
   GetProductBySKU that follows for an updated SKU, Redis answering, is a
   HIT that returns the updated product, which is the store's document and
   carries the category the payload set. *)
C17_HitAfterUpdate ==
    /\ \A q \in EditRequests :
        LET r == EditProductBySKUDo(store, rdb, q)
        IN  (r.resp.status = 200 /\ ~r.resp.cacheErr) =>
                /\ r.resp.xcache = "REFRESHED"
                /\ ServedFromCache(NextGet(r, q.sku), r, r.resp.product)
                /\ "category" \in DOMAIN q.updates =>
                    NextGet(r, q.sku).resp.product.Category = q.updates["category"]
    /\ \A q \in BulkEditRequests :
        LET r == BulkEditProductsDo(store, rdb, q)
            ps == r.resp.products
        IN  (ps # <<>> /\ ~r.resp.cacheErr) =>
                /\ r.resp.xcache = "BULK-REFRESHED"
                /\ \A i \in DOMAIN ps :
                    (\A j \in DOMAIN ps : j > i => ps[j].SKU # ps[i].SKU) =>
                        ServedFromCache(NextGet(r, ps[i].SKU), r, ps[i])

(* An edit that changes the category of a product the cache holds in its
   old version *)
C17_Witness ==
    \E q \in EditRequests :
        LET r == EditProductBySKUDo(store, rdb, q)
            c == GetProductBySKUFromCache(rdb, q.sku, TRUE)
        IN  /\ r.resp.status = 200
            /\ ~r.resp.cacheErr
            /\ ~c.err
            /\ c.product.Category # r.resp.product.Category
            /\ NextGet(r, q.sku).resp.xcache = "HIT"

(* The batch made of element i of a batch of two, with the outage that
   meets that element *)
Single(b, i) == <<b[i]>>

(* The response r to a batch of n elements counts every element once, as a
   success or as an error, and its status follows the two counts *)
CountsAndStatus(r, n) ==
    /\ Len(r.resp.products) + Len(r.resp.errors) = n
    /\ r.resp.status = IF r.resp.errors = <<>> THEN 200
                       ELSE IF r.resp.products # <<>> THEN 207
                       ELSE 400

(* r, the result of a batch of two, is what its two elements give when each
   is sent alone, r1 first and r2 on the state r1 leaves: the same store and
   cache, the successes and the errors of both, one error for each element
   that failed *)
ElementWise(r, r1, r2) ==
    /\ r.store = r2.store
    /\ r.db = r2.db
    /\ r.resp.products = r1.resp.products \o r2.resp.products
    /\ r.resp.errors = r1.resp.errors \o r2.resp.errors
    /\ \A x \in {r1, r2} : Len(x.resp.products) + Len(x.resp.errors) = 1

(* C18: BulkEditProducts and BulkDeleteProducts process the elements of a
   batch independently: a batch of two gives what its elements give one
   after the other, a failing element adds exactly one error and the
   element after it is still processed; success_count + error_count =
   total_requested; the status is 200 when no element failed, 207 when some
   succeeded and some failed, 400 when none succeeded. *)
C18_BulkElementsIndependent ==
    /\ \A q \in BulkEditRequests :
        LET b == q.bulkUpdates
            r == BulkEditProductsDo(store, rdb, q)
            r1 == BulkEditProductsResult(store, rdb, Single(b, 1),
                      Single(q.storeOKs, 1), Single(q.putOKs, 1))
            r2 == BulkEditProductsResult(r1.store, r1.db, Single(b, 2),
                      Single(q.storeOKs, 2), Single(q.putOKs, 2))
        IN  /\ CountsAndStatus(r, Len(b))
            /\ Len(b) = 2 => ElementWise(r, r1, r2)
    /\ \A q \in BulkDeleteRequests :
        LET b == q.deleteRequests
            r == BulkDeleteProductsDo(store, rdb, q)
            r1 == BulkDeleteProductsResult(store, rdb, Single(b, 1),
                      Single(q.storeOKs, 1), Single(q.cacheOKs, 1))
            r2 == BulkDeleteProductsResult(r1.store, r1.db, Single(b, 2),
                      Single(q.storeOKs, 2), Single(q.cacheOKs, 2))
        IN  /\ CountsAndStatus(r, Len(b))
            /\ Len(b) = 2 => ElementWise(r, r1, r2)

(* The same for the batches in which every element of a bulk delete carries
   a sku *)
C18_ExceptMissingSKUInDelete ==
    /\ \A q \in BulkEditRequests :
        LET b == q.bulkUpdates
            r == BulkEditProductsDo(store, rdb, q)
            r1 == BulkEditProductsResult(store, rdb, Single(b, 1),
                      Single(q.storeOKs, 1), Single(q.putOKs, 1))
            r2 == BulkEditProductsResult(r1.store, r1.db, Single(b, 2),
                      Single(q.storeOKs, 2), Single(q.putOKs, 2))
        IN  /\ CountsAndStatus(r, Len(b))
            /\ Len(b) = 2 => ElementWise(r, r1, r2)
    /\ \A q \in BulkDeleteRequests :
        LET b == q.deleteRequests
            r == BulkDeleteProductsDo(store, rdb, q)
            r1 == BulkDeleteProductsResult(store, rdb, Single(b, 1),
                      Single(q.storeOKs, 1), Single(q.cacheOKs, 1))
            r2 == BulkDeleteProductsResult(r1.store, r1.db, Single(b, 2),
                      Single(q.storeOKs, 2), Single(q.cacheOKs, 2))
        IN  BindsDeleteRequests(b) =>
                /\ CountsAndStatus(r, Len(b))
                /\ Len(b) = 2 => ElementWise(r, r1, r2)

(* The metadata of the session's cart agree with its item hashes on
   item_count and subtotal *)
MetadataAgrees(db, sessionID) ==
    LET cart == RedisGetCart(db, sessionID, TRUE).cart
    IN  /\ cart.ItemCount = SumField(cart.Items, "Quantity")
        /\ cart.Subtotal = SumField(cart.Items, "Subtotal")

(* Every way the save of cart can stop before its last item hash is written
   leaves metadata that agree with the item hashes *)
StoppedSaveAgrees(db, cart) ==
    \A written \in (SUBSET DOMAIN cart.Items) \ {DOMAIN cart.Items} :
        MetadataAgrees(saveCartToRedisStopped(db, cart, written), cart.SessionID)

(* C19: the persist step of the cart is atomic with respect to crashes and
   failures: when an AddToCart or an UpdateCartItem on a cart whose metadata
   agree with its item hashes stops at a point of its write sequence, the
   metadata in the cache still agree with the item hashes of the session on
   item_count and subtotal. *)
C19_StoppedSaveLeavesAgreement ==
    /\ \A q \in AddRequests : \A product \in Matching(store, q.sku) :
        LET a == RedisAddToCart(rdb, q.sessionID, q.sku, q.quantity, product,
                                TRUE, FALSE)
        IN  (q.quantity >= 1 /\ MetadataAgrees(rdb, q.sessionID)
                /\ Whole(rdb, q.sessionID) /\ a.err = "") =>
                StoppedSaveAgrees(rdb, a.cart)
    /\ \A q \in UpdateRequests :
        LET u == RedisUpdateCartItem(rdb, q.sessionID, q.sku, q.quantity,
                                     TRUE, FALSE)
        IN  (q.quantity >= 1 /\ MetadataAgrees(rdb, q.sessionID)
                /\ Whole(rdb, q.sessionID) /\ u.err = "") =>
                StoppedSaveAgrees(rdb, u.cart)

(* The carts that the AddToCart and UpdateCartItem calls which read db
   compute and go on to save *)
ComputedCarts(st, db) ==
    UNION {{RedisAddToCart(db, q.sessionID, q.sku, q.quantity, product,
                           TRUE, FALSE).cart : product \in Matching(st, q.sku)} :
            q \in {x \in AddRequests : x.quantity >= 1}}
    \cup {RedisUpdateCartItem(db, q.sessionID, q.sku, q.quantity, TRUE, FALSE).cart :
            q \in {x \in UpdateRequests :
                    /\ x.quantity >= 1
                    /\ ~NotInCart(db, x.sessionID, x.sku)}}

(* C20: concurrent mutations of one cart session are last-writer-wins at the
   granularity of the whole read-modify-write cycle: after two overlapping
   AddToCart / UpdateCartItem calls on one session have both completed, the
   persisted cart, metadata and item keys, is the cart that one of the two
   calls wrote. *)
C20_OverlapIsLastWriterWins ==
    \A cart1, cart2 \in ComputedCarts(store, rdb) :
        cart1.SessionID = cart2.SessionID =>
            OverlappingSaves(rdb, cart1, cart2) \in
                {saveCartToRedis(rdb, cart1, FALSE), saveCartToRedis(rdb, cart2, FALSE)}

(* The cache lookup and the GET handler on db treat sku as not cached: the
   lookup returns the error of a miss and no product, the handler goes to
   the store and never answers HIT *)
TreatedAsMiss(st, db, sku) ==
    /\ GetProductBySKUFromCache(db, sku, TRUE) = [err |-> TRUE, product |-> NoProduct]
    /\ \A storeOK, putOK \in BOOLEAN :
        LET g == GetProductBySKUResult(st, db, sku, TRUE, storeOK, putOK)
        IN  /\ g.resp.xcache # "HIT"
            /\ g.resp.storeQueried
            /\ g.resp.status = 200 => g.resp.product \in st

(* C21: the writes of the product cache are all-or-nothing and the SKU index
   never dangles: in every reachable state a sku:{sku} entry comes with its
   product:{sku} entry, which expires with it; a put or a removal that fails
   changes no key; and on a cache where sku:{sku} is there without
   product:{sku} the lookup reports a miss, not a product. *)
C21_SkuIndexNeverDangles ==
    /\ \A sku \in SKUs :
        Has(rdb, SkuKey(sku)) =>
            /\ Has(rdb, ProductKey(sku))
            /\ rdb[ProductKey(sku)].ttl = rdb[SkuKey(sku)].ttl
            /\ rdb[SkuKey(sku)].val = sku
    /\ \A P \in ProductUniverse :
        /\ CacheSingleProduct(rdb, P, FALSE).db = rdb
        /\ RemoveProductFromCache(rdb, P, FALSE).db = rdb
        /\ LET d == CacheSingleProduct(rdb, P, TRUE).db
           IN  Has(d, SkuKey(P.SKU)) /\ Has(d, ProductKey(P.SKU))
        /\ LET d == RemoveProductFromCache(rdb, P, TRUE).db
           IN  ~Has(d, SkuKey(P.SKU)) /\ ~Has(d, ProductKey(P.SKU))
    /\ \A sku \in SKUs :
        Has(rdb, SkuKey(sku)) =>
            TreatedAsMiss(store, Del(rdb, {ProductKey(sku)}), sku)

(* A stored product is cached under both keys while the other SKU has no
   index entry and no document *)
C21_Witness ==
    \E s, t \in SKUs :
        /\ Has(rdb, SkuKey(s))
        /\ Has(rdb, ProductKey(s))
        /\ ~Has(rdb, SkuKey(t))
        /\ Matching(store, t) = {}
        /\ Matching(store, s) # {}

(* The payloads an edit accepts *)
AcceptedPayloads == {u \in UpdatePayloads : DOMAIN StripImmutable(u) # {}}

(* The cache holds the store's current document of sku *)
CacheIsCurrent(st, db, sku) ==
    /\ ~GetProductBySKUFromCache(db, sku, TRUE).err
    /\ GetProductBySKUFromCache(db, sku, TRUE).product \in st

(* C22: the product cache is eventually consistent with the store: once two
   EditProductBySKU requests on a stored SKU that were in flight together
   have both completed with a successful cache step, in whatever order
   their cache updates landed, the cached product:{sku} is the store's
   current document. *)
C22_CacheCatchesUpWithStore ==
    \A sku \in SKUs : \A updates1, updates2 \in AcceptedPayloads :
        \A firstLandsLast \in BOOLEAN :
            LET r == OverlappingEdits(store, rdb, sku, updates1, updates2,
                                      firstLandsLast)
            IN  Matching(store, sku) # {} => CacheIsCurrent(r.store, r.db, sku)

(* C23: after a DeleteProductBySKU has completed with a successful cache
   eviction, a GetProductBySKU for that SKU is not served from the cache,
   also when a get that had missed the cache and read the store before the
   delete writes its cache fill after the eviction. *)
C23_NoHitAfterDelete ==
    \A sku \in SKUs : \A fillLandsLast \in BOOLEAN :
        LET r == GetOverlappingDelete(store, rdb, sku, fillLandsLast)
            g == GetProductBySKUResult(r.store, r.db, sku, TRUE, TRUE, TRUE)
        IN  (Matching(store, sku) # {}
                /\ GetProductBySKUFromCache(rdb, sku, TRUE).err) =>
                /\ g.resp.xcache # "HIT"
                /\ g.resp.status = 404

(* The request did not get through its store step *)
StoreStepFailed(r) == r.resp.status \in {400, 404, 500}

(* What r put in the cache is in the store, what r evicted is not *)
CacheFollowsStore(r) ==
    /\ \A i \in DOMAIN r.resp.put : r.resp.put[i] \in r.store
    /\ \A i \in DOMAIN r.resp.removed : Matching(r.store, r.resp.removed[i].SKU) = {}

(* C24: on the write paths of the product handlers the store changes before
   the cache: what create and update put in the cache is the document the
   store has committed, what delete evicts is gone from the store, the
   change of the store is the same whether or not the cache step then
   succeeds, and a request whose store step fails (not found or store
   error) writes and deletes no cache key. *)
C24_StoreBeforeCache ==
    /\ \A q \in EditRequests :
        LET r == EditProductBySKUDo(store, rdb, q)
        IN  /\ StoreStepFailed(r) => r.db = rdb
            /\ CacheFollowsStore(r)
            /\ EditProductBySKUDo(store, rdb, [q EXCEPT !.putOK = FALSE]).store = r.store
    /\ \A q \in DeleteRequests :
        LET r == DeleteProductBySKUDo(store, rdb, q)
        IN  /\ StoreStepFailed(r) => r.db = rdb
            /\ CacheFollowsStore(r)
            /\ DeleteProductBySKUDo(store, rdb, [q EXCEPT !.cacheOK = FALSE]).store = r.store
    /\ \A q \in CreateRequests :
        LET r == CreateNewProductsDo(store, rdb, q)
        IN  FreshSKUs(store, q) =>
                /\ StoreStepFailed(r) => r.db = rdb
                /\ CacheFollowsStore(r)
                /\ CreateNewProductsDo(store, rdb,
                       [q EXCEPT !.putOKs = [i \in DOMAIN @ |-> FALSE]]).store = r.store

(* The store does not answer the delete of a product that is stored and
   cached, and the store does answer an edit of it whose cache step fails *)
C24_Witness ==
    \E q \in DeleteRequests : \E e \in EditRequests :
        /\ ~q.storeOK
        /\ Matching(store, q.sku) # {}
        /\ Has(rdb, ProductKey(q.sku))
        /\ DeleteProductBySKUDo(store, rdb, q).resp.status = 500
        /\ e.sku = q.sku /\ ~e.putOK
        /\ EditProductBySKUDo(store, rdb, e).resp.status = 200
        /\ EditProductBySKUDo(store, rdb, e).store # store

----------------------------------------------------------------------------
(* Properties of the cart, under SpecCart (continued) *)

(* The keys of the session's cart: the metadata hash and the item hashes *)
CartKeys(db, sessionID) ==
    (IF Has(db, CartKey(sessionID)) THEN {CartKey(sessionID)} ELSE {})
    \cup Keys(db, ItemPattern(sessionID))

(* Every key of the session's cart has the full window left, so that all of
   them expire together *)
FullWindow(db, sessionID) ==
    /\ Has(db, CartKey(sessionID))
    /\ \A k \in CartKeys(db, sessionID) : db[k].ttl = CartTTL

(* C25: every successful AddToCart and UpdateCartItem leaves the metadata
   key and every item key of the cart with the full TTL window, so that all
   the keys of the cart expire together one window after the mutation. *)
C25_MutationResetsEveryExpiry ==
    /\ \A q \in AddRequests :
        LET r == AddToCartDo(store, rdb, q)
        IN  r.resp.status = 201 => FullWindow(r.db, q.sessionID)
    /\ \A q \in UpdateRequests :
        LET r == UpdateCartItemDo(store, rdb, q)
        IN  r.resp.status = 200 => FullWindow(r.db, q.sessionID)

----------------------------------------------------------------------------
(* Properties of the product cache lists, under Spec *)

(* The list stored under k, empty when the key is absent *)
ListAt(db, k) == IF Has(db, k) THEN db[k].val ELSE <<>>

(* The first n entries of s *)
FirstN(s, n) == IF Len(s) > n THEN SubSeq(s, 1, n) ELSE s

(* The cache after n more successful CacheSingleProduct calls for P; a put
   that changes nothing ends the run, as the puts after it change nothing
   either *)
RECURSIVE PutTimes(_, _, _)
PutTimes(db, P, n) ==
    IF n = 0 \/ db = CacheSingleProduct(db, P, TRUE).db THEN db
    ELSE PutTimes(CacheSingleProduct(db, P, TRUE).db, P, n - 1)

(* The put of P on db pushes P.SKU on the recent list, which keeps its
   first RecentCap entries, and on the list of P's category *)
PushesOnLists(db, P) ==
    LET d == CacheSingleProduct(db, P, TRUE).db
    IN  /\ ListAt(d, RecentKey) = FirstN(<<P.SKU>> \o ListAt(db, RecentKey), RecentCap)
        /\ Len(ListAt(d, RecentKey)) <= RecentCap
        /\ Head(ListAt(d, RecentKey)) = P.SKU
        /\ ListAt(d, CategoryKey(P.Category)) =
                <<P.SKU>> \o ListAt(db, CategoryKey(P.Category))

(* C26: after any sequence of CacheSingleProduct calls the recent list holds
   at most 100 entries with the SKU put last at its head, also once 100 and
   more puts have been made; putting the same product again leaves
   product:{sku} and sku:{sku} as they were, read with the same value, and
   pushes one more occurrence of the SKU on the recent list and on the list
   of its category. *)
C26_RecentListCappedNoDedup ==
    /\ Len(ListAt(rdb, RecentKey)) <= RecentCap
    /\ \A P \in ProductUniverse :
        LET once == CacheSingleProduct(rdb, P, TRUE).db
            twice == CacheSingleProduct(once, P, TRUE).db
        IN  /\ PushesOnLists(rdb, P)
            /\ PushesOnLists(once, P)
            /\ twice[ProductKey(P.SKU)] = once[ProductKey(P.SKU)]
            /\ twice[SkuKey(P.SKU)] = once[SkuKey(P.SKU)]
            /\ GetProductBySKUFromCache(twice, P.SKU, TRUE) = Hit(P)
            /\ GetProductBySKUFromCache(once, P.SKU, TRUE) = Hit(P)
    /\ \A s \in SKUs :
        LET P == ToProduct(s, "cat1", 1000 * Cent)
            full == PutTimes(rdb, P, RecentCap)
        IN  /\ Len(ListAt(full, RecentKey)) = RecentCap
            /\ \A Q \in ProductUniverse : PushesOnLists(full, Q)

(* Repeated puts have left the same SKU on the recent list more than once *)
C26_Witness ==
    \E s \in SKUs :
        /\ Len(ListAt(rdb, RecentKey)) >= 2
        /\ ListAt(rdb, RecentKey)[1] = s
        /\ ListAt(rdb, RecentKey)[2] = s
        /\ Has(rdb, ProductKey(s))

(* sku occurs in the list stored under k *)
OnList(db, k, sku) == \E i \in DOMAIN ListAt(db, k) : ListAt(db, k)[i] = sku

(* C27: after a product has been deleted through the delete handler with a
   successful cache eviction, its SKU occurs neither in the recent list nor
   in the list of any category, whatever puts of the product preceded,
   updates that changed its category included. *)
C27_DeletedSKUOnNoList ==
    \A q \in DeleteRequests :
        LET r == DeleteProductBySKUDo(store, rdb, q)
        IN  (r.resp.status = 200 /\ ~r.resp.cacheErr) =>
                /\ ~OnList(r.db, RecentKey, q.sku)
                /\ \A c \in Categories : ~OnList(r.db, CategoryKey(c), q.sku)

(* Sessions other than S: one whose identifier continues S's, one of the
   form S + ":item:" + x, and one that shares nothing with S *)
OtherSessions(S) == {S \o <<"2">>, S \o <<":item:", "x">>, <<"s2">>}

(* The cache once session T has put one unit of sku in its cart *)
WithCartOf(st, db, T, sku) ==
    RedisAddToCart(db, T, sku, 1, CHOOSE p \in Matching(st, sku) : TRUE,
                   TRUE, FALSE).db

(* Every key of T's cart in d0 is in r.db as it was *)
KeepsCartOf(r, d0, T) ==
    \A k \in CartKeys(d0, T) : Has(r.db, k) /\ r.db[k] = d0[k]

(* C28: cart sessions are isolated: GetCart, AddToCart, UpdateCartItem,
   RemoveFromCart and ClearCart on session S leave the cart of every other
   session T as it was, and S's cart reads the same whether or not T has a
   cart, also for a T whose identifier has S as a prefix or has the form
   S + ":item:" + x. *)
C28_SessionsAreIsolated ==
    \A S \in Sessions : \A T \in OtherSessions(S) :
        \A sku \in {k \in SKUs : Matching(store, k) # {}} :
            LET d0 == WithCartOf(store, rdb, T, sku)
            IN  /\ RedisGetCart(d0, S, TRUE).cart = RedisGetCart(rdb, S, TRUE).cart
                /\ Keys(d0, ItemPattern(S)) \cap CartKeys(d0, T) = {}
                /\ \A q \in SessionRequests :
                    /\ KeepsCartOf(GetCartDo(store, d0, q), d0, T)
                    /\ KeepsCartOf(ClearCartDo(store, d0, q), d0, T)
                /\ \A q \in {x \in AddRequests : ~x.lag} :
                    KeepsCartOf(AddToCartDo(store, d0, q), d0, T)
                /\ \A q \in {x \in UpdateRequests : ~x.lag} :
                    KeepsCartOf(UpdateCartItemDo(store, d0, q), d0, T)
                /\ \A q \in {x \in RemoveRequests : ~x.lag} :
                    KeepsCartOf(RemoveFromCartDo(store, d0, q), d0, T)

(* Every key of the session's cart has an expiry *)
EveryCartKeyExpires(db, sessionID) ==
    \A k \in CartKeys(db, sessionID) : db[k].ttl # NoTTL

(* C29: every cart key in the cache carries a TTL: in no reachable state,
   and in no state that an AddToCart or an UpdateCartItem leaves when it
   ends between the write of a hash and the setting of its expiry, is there
   a metadata key or an item key of a cart without an expiry. *)
C29_EveryCartKeyHasTTL ==
    /\ \A S \in Sessions : EveryCartKeyExpires(rdb, S)
    /\ \A q \in AddRequests : \A product \in Matching(store, q.sku) :
        LET a == RedisAddToCart(rdb, q.sessionID, q.sku, q.quantity, product,
                                TRUE, FALSE)
        IN  (q.quantity >= 1 /\ a.err = "") =>
                EveryCartKeyExpires(saveCartToRedisCutBeforeExpire(rdb, a.cart),
                                    q.sessionID)
    /\ \A q \in UpdateRequests :
        LET u == RedisUpdateCartItem(rdb, q.sessionID, q.sku, q.quantity,
                                     TRUE, FALSE)
        IN  (q.quantity >= 1 /\ u.err = "") =>
                EveryCartKeyExpires(saveCartToRedisCutBeforeExpire(rdb, u.cart),
                                    q.sessionID)

(* The prices a product of the catalog can have: validate:"gt=0" is the only
   rule, so a price need not be a whole number of cents (here 9.996) *)
CatalogPrices == PriceSet \cup {999 * Cent + 60}

(* The store once the price of sku has been edited to price *)
Repriced(st, sku, price) ==
    MongoUpdateProductBySKU(st, sku, Map1("price", price), TRUE).store

(* The item hashes of the session *)
StoredItems(db, sessionID) ==
    [k \in Keys(db, ItemPattern(sessionID)) |-> ParseItem(db[k].val)]

(* Every stored item of the session has a quantity of 1 or more and
   subtotal = price x quantity, and is stored under the key of its SKU, so
   that no SKU is stored twice *)
ItemsWellFormed(db, sessionID) ==
    \A k \in Keys(db, ItemPattern(sessionID)) :
        LET item == StoredItems(db, sessionID)[k]
        IN  /\ item.Quantity >= 1
            /\ item.Subtotal = item.Price * item.Quantity
            /\ k = ItemKey(sessionID, item.SKU)

(* After the request that gave r, the items are well formed, an item that
   was in the cart before keeps its unit price, and an item that is new has
   the price the product had in the catalog st; nothing is asked of the
   price of an item hash that had outlived the metadata of its cart *)
PricesAreSnapshots(r, st, db, sessionID) ==
    /\ ItemsWellFormed(r.db, sessionID)
    /\ \A k \in Keys(r.db, ItemPattern(sessionID)) :
        LET item == StoredItems(r.db, sessionID)[k]
        IN  IF k \in Keys(db, ItemPattern(sessionID)) /\ Has(db, CartKey(sessionID))
            THEN item.Price = StoredItems(db, sessionID)[k].Price
            ELSE k \in Keys(db, ItemPattern(sessionID))
                 \/ \E p \in Matching(st, item.SKU) : item.Price = p.Price

(* C30: after any sequence of cart requests that the handlers accept on one
   session, one at a time, every item stored in the cart has quantity >= 1,
   the unit price the product had when the SKU was added, and subtotal =
   price x quantity; no item with quantity 0 or less is stored, and each
   SKU is stored once. *)
C30_StoredItemsWellFormed ==
    /\ \A S \in Sessions : ItemsWellFormed(rdb, S)
    /\ \A q \in AddRequests : \A price \in CatalogPrices :
        LET st == IF q.sku \in SKUs THEN Repriced(store, q.sku, price) ELSE store
            r == AddToCartDo(st, rdb, q)
        IN  r.resp.status = 201 => PricesAreSnapshots(r, st, rdb, q.sessionID)
    /\ \A q \in UpdateRequests :
        LET r == UpdateCartItemDo(store, rdb, q)
        IN  r.resp.status = 200 => PricesAreSnapshots(r, store, rdb, q.sessionID)
    /\ \A q \in RemoveRequests :
        LET r == RemoveFromCartDo(store, rdb, q)
        IN  r.resp.status = 200 => PricesAreSnapshots(r, store, rdb, q.sessionID)

====
